---- MODULE Spec2Model ----
(***************************************************************************)
(* ISO 8583 decoder: parseISO8583 (src/src/parser.ts) as a state machine.  *)
(* One behaviour is one invocation of parseISO8583 on one input string.    *)
(* Strings are sequences of one-character strings; positions are 0-based   *)
(* as in the source.                                                       *)
(***************************************************************************)
EXTENDS Integers, Sequences, FiniteSets, TLC

VARIABLES
    inputHex,         \* the argument of parseISO8583
    gen,              \* how the input was put together (message builder record)
    pc,               \* position of the invocation inside parseISO8583
    hex,              \* normalized input (parser.ts:133)
    pos,              \* cursor (parser.ts:160)
    mti,              \* Null or Some(MTIInfo)
    primaryBitmap,    \* Null or Some(BitmapInfo)
    secondaryBitmap,  \* Null or Some(BitmapInfo)
    allActiveFields,  \* parser.ts:208
    idx,              \* 1-based index of the for-of loop over allActiveFields
    fields,           \* ParsedField[]
    errors,           \* ParseError[]
    hexSegments,      \* HexSegment[]
    success,          \* ParseResult.success, meaningful when pc = "done"
    prev,             \* Null, or Some of the argument and the ParseResult of the
                      \* invocation made before the current one
    binDataCache,     \* Null or Some(Map<string, BinInfo>)         (README.md:527)
    binDataLoading,   \* README.md:528
    binDataListeners, \* README.md:529, the listeners by the effect that made them
    hooks,            \* the useBinData instances: phase, binMap state, the branch
                      \* the effect took, its cleanup, calls of its listener
    fetches           \* the fetch promise chains not yet settled (README.md:543)

\* the module-level state and the instances of useBinData
binVars == <<binDataCache, binDataLoading, binDataListeners, hooks, fetches>>

\* the state of an invocation of parseISO8583
parserVars == <<inputHex, gen, pc, hex, pos, mti, primaryBitmap, secondaryBitmap,
                allActiveFields, idx, fields, errors, hexSegments, success, prev>>

vars == <<inputHex, gen, pc, hex, pos, mti, primaryBitmap, secondaryBitmap,
          allActiveFields, idx, fields, errors, hexSegments, success, prev,
          binDataCache, binDataLoading, binDataListeners, hooks, fetches>>

(***************************************************************************)
(* Bounds of the explored inputs.                                          *)
(***************************************************************************)
MaxFields == 2   \* most bitmap bits a built message sets
MaxCut == 4      \* most hex characters cut from the end of a built message
MaxRawLen == 5   \* longest free-form input over RawAlphabet

(***************************************************************************)
(* Nullable values: null is the empty tuple, a value v is <<v>>.           *)
(***************************************************************************)
Null == << >>
Some(v) == << v >>

(***************************************************************************)
(* BIN data lookup: the module-level cache and the useBinData hook         *)
(* (README.md:527-600).  Every step below is one uninterrupted run of      *)
(* JavaScript: a render, an effect, an effect cleanup, or a promise        *)
(* callback.                                                               *)
(***************************************************************************)
MaxHooks == 3    \* components that use the hook
MaxMounts == 2   \* times one component is mounted

HookIds == 1..MaxHooks

\* the CSV text by rows and columns; the quote-aware split of
\* README.md:558-565 is taken as done
BinFiles ==
    { << >>,
      << << "BIN", "Brand" >> >>,
      << << "BIN", "Brand" >>, << "411111", "VISA" >> >>,
      << << "Brand", "BIN" >>, << "", "550000" >>, << "VISA", "" >> >>,
      << << "Brand" >>, << "VISA" >> >> }

\* Array.prototype.indexOf, 0-based, -1 when absent
indexOf(arr, x) ==
    IF \E k \in 1..Len(arr) : arr[k] = x
    THEN (CHOOSE k \in 1..Len(arr) : arr[k] = x /\ \A j \in 1..(k - 1) : arr[j] # x) - 1
    ELSE -1

\* cols[i]; the empty string stands for undefined as well, both are falsy
Col(cols, i) == IF i >= 0 /\ i < Len(cols) THEN cols[i + 1] ELSE ""

OrUnknown(v) == IF v = "" THEN "Unknown" ELSE v

\* README.md:546-577: the Map built from the rows; a later row with the same
\* BIN replaces the earlier one
ParseBinCsv(rows) ==
    LET headers == rows[1]
        idxBIN == indexOf(headers, "BIN")
        idxBrand == indexOf(headers, "Brand")
        idxType == indexOf(headers, "Type")
        idxCategory == indexOf(headers, "Category")
        idxIssuer == indexOf(headers, "Issuer")
        idxCountry == indexOf(headers, "CountryName")
        withBin == { i \in 2..Len(rows) : Col(rows[i], idxBIN) # "" }
        LastRow(b) == CHOOSE i \in withBin :
                          /\ Col(rows[i], idxBIN) = b
                          /\ \A j \in withBin : Col(rows[j], idxBIN) = b => j <= i
    IN  [b \in { Col(rows[i], idxBIN) : i \in withBin } |->
            [brand |-> OrUnknown(Col(rows[LastRow(b)], idxBrand)),
             type |-> OrUnknown(Col(rows[LastRow(b)], idxType)),
             category |-> OrUnknown(Col(rows[LastRow(b)], idxCategory)),
             issuer |-> OrUnknown(Col(rows[LastRow(b)], idxIssuer)),
             country |-> OrUnknown(Col(rows[LastRow(b)], idxCountry))]]

\* rows[0].split(...) on a text without rows throws          (README.md:547)
ParseThrows(rows) == rows = << >>

\* README.md:527-529, and no component mounted yet
InitBinData ==
    /\ binDataCache = Null
    /\ binDataLoading = FALSE
    /\ binDataListeners = << >>
    /\ hooks = [i \in HookIds |->
                  [phase |-> "unmounted", binMap |-> Null, branch |-> "none",
                   cleanup |-> FALSE, mounts |-> 0, invoked |-> 0]]
    /\ fetches = {}

\* the closure made by the effect of one mounting of one component
Closure(i) == [hook |-> i, mount |-> hooks[i].mounts]

\* the component of the closure is still in the mounting that made it
Alive(c) == hooks[c.hook].phase = "mounted" /\ hooks[c.hook].mounts = c.mount

\* if (binDataCache)                                          (README.md:535)
CacheHit == binDataCache # Null

\* variant: a load in flight is never noticed
LoadInFlight_Never == FALSE

\* if (binDataLoading)                                        (README.md:536)
LoadInFlight == binDataLoading

\* variant: the cleanup leaves the listener in the list
RemoveListener_Keep(list, c) == list

\* idx = indexOf(listener); if (idx >= 0) splice(idx, 1)      (README.md:539)
RemoveListener(list, c) ==
    LET at == indexOf(list, c)
    IN  IF at >= 0 THEN SubSeq(list, 1, at) \o SubSeq(list, at + 2, Len(list))
        ELSE list

\* useState(binDataCache) at the first render                 (README.md:532)
Render(i) ==
    /\ hooks[i].phase = "unmounted"
    /\ hooks[i].mounts < MaxMounts
    /\ hooks' = [hooks EXCEPT ![i] =
                   [phase |-> "rendered", binMap |-> binDataCache, branch |-> "none",
                    cleanup |-> FALSE, mounts |-> hooks[i].mounts + 1,
                    invoked |-> 0]]
    /\ UNCHANGED <<binDataCache, binDataLoading, binDataListeners, fetches>>
    /\ UNCHANGED parserVars

\* the effect, run once after the first render            (README.md:534-585)
RunEffect(i) ==
    /\ hooks[i].phase = "rendered"
    /\ IF CacheHit
       THEN /\ hooks' = [hooks EXCEPT ![i].phase = "mounted", ![i].branch = "cached",
                                     ![i].binMap = binDataCache]
            /\ UNCHANGED <<binDataLoading, binDataListeners, fetches>>
       ELSE IF LoadInFlight
       THEN /\ binDataListeners' = Append(binDataListeners, Closure(i))
            /\ hooks' = [hooks EXCEPT ![i].phase = "mounted", ![i].branch = "listen",
                                     ![i].cleanup = TRUE]
            /\ UNCHANGED <<binDataLoading, fetches>>
       ELSE /\ binDataLoading' = TRUE
            /\ fetches' = fetches \cup { Closure(i) }
            /\ hooks' = [hooks EXCEPT ![i].phase = "mounted", ![i].branch = "fetch"]
            /\ UNCHANGED binDataListeners
    /\ UNCHANGED binDataCache
    /\ UNCHANGED parserVars

\* the component goes away; the cleanup runs if the effect returned one
Unmount(i) ==
    /\ hooks[i].phase = "mounted"
    /\ binDataListeners' = IF hooks[i].cleanup
                           THEN RemoveListener(binDataListeners, Closure(i))
                           ELSE binDataListeners
    /\ hooks' = [hooks EXCEPT ![i].phase = "unmounted", ![i].cleanup = FALSE]
    /\ UNCHANGED <<binDataCache, binDataLoading, fetches>>
    /\ UNCHANGED parserVars

\* how many entries of the listener list belong to component i
ListenersOf(i) ==
    Cardinality({ k \in 1..Len(binDataListeners) : binDataListeners[k].hook = i })

\* the second then-callback                               (README.md:545-583)
FetchSucceeds(f, rows) ==
    /\ f \in fetches
    /\ ~ParseThrows(rows)
    /\ LET map == ParseBinCsv(rows)
           SetsState(i) ==
               \/ f.hook = i /\ Alive(f)
               \/ \E k \in 1..Len(binDataListeners) :
                      binDataListeners[k].hook = i /\ Alive(binDataListeners[k])
       IN  /\ binDataCache' = Some(map)
           /\ hooks' = [i \in HookIds |->
                          [hooks[i] EXCEPT
                             !.binMap = IF SetsState(i) THEN Some(map) ELSE @,
                             !.invoked = @ + ListenersOf(i)]]
    /\ binDataListeners' = << >>
    /\ binDataLoading' = FALSE
    /\ fetches' = fetches \ { f }
    /\ UNCHANGED parserVars

\* the catch-callback: fetch or res.text() rejected, or the then-callback
\* threw on a text without rows                               (README.md:584)
FetchFails(f) ==
    /\ f \in fetches
    /\ binDataLoading' = FALSE
    /\ fetches' = fetches \ { f }
    /\ UNCHANGED <<binDataCache, binDataListeners, hooks>>
    /\ UNCHANGED parserVars

\* loading: !binMap && binDataLoading                         (README.md:599)
Loading(i) == hooks[i].binMap = Null /\ binDataLoading

Min(a, b) == IF a < b THEN a ELSE b
Max(a, b) == IF a > b THEN a ELSE b

(***************************************************************************)
(* Characters.                                                             *)
(***************************************************************************)
HexDigits == << "0", "1", "2", "3", "4", "5", "6", "7",
                "8", "9", "A", "B", "C", "D", "E", "F" >>
DecDigits == { "0", "1", "2", "3", "4", "5", "6", "7", "8", "9" }
HexChars == { HexDigits[i] : i \in 1..16 }
LowerLetters == << "a", "b", "c", "d", "e", "f", "g", "h", "i", "j", "k", "l", "m",
                   "n", "o", "p", "q", "r", "s", "t", "u", "v", "w", "x", "y", "z" >>
UpperLetters == << "A", "B", "C", "D", "E", "F", "G", "H", "I", "J", "K", "L", "M",
                   "N", "O", "P", "Q", "R", "S", "T", "U", "V", "W", "X", "Y", "Z" >>
\* the characters the regular expression class [\s\n\r] removes
Whitespace == { " ", "\t", "\n", "\r", "\f" }
\* String.fromCharCode(32) .. String.fromCharCode(126); the grave accent
\* (code 96) is written "<grave>"
PrintableAscii ==
  << " ", "!", "\"", "#", "$", "%", "&", "'", "(", ")", "*", "+", ",", "-", ".", "/",
     "0", "1", "2", "3", "4", "5", "6", "7", "8", "9", ":", ";", "<", "=", ">", "?",
     "@", "A", "B", "C", "D", "E", "F", "G", "H", "I", "J", "K", "L", "M", "N", "O",
     "P", "Q", "R", "S", "T", "U", "V", "W", "X", "Y", "Z", "[", "\\", "]", "^", "_",
     "<grave>", "a", "b", "c", "d", "e", "f", "g", "h", "i", "j", "k", "l", "m", "n", "o",
     "p", "q", "r", "s", "t", "u", "v", "w", "x", "y", "z", "{", "|", "}", "~" >>

\* parseInt(h, 16) of one hex digit
HexVal(c) == (CHOOSE i \in 1..16 : HexDigits[i] = c) - 1

\* String.prototype.toUpperCase, one character
UpperChar(c) ==
    IF \E i \in 1..26 : LowerLetters[i] = c
    THEN UpperLetters[CHOOSE i \in 1..26 : LowerLetters[i] = c]
    ELSE c

toUpperCase(s) == [i \in 1..Len(s) |-> UpperChar(s[i])]

\* variant: only spaces and newlines are removed
stripWhitespace_NoCR(s) == SelectSeq(s, LAMBDA c : c \notin { " ", "\n" })

\* String.prototype.replace(/[\s\n\r]/g, '')
stripWhitespace(s) == SelectSeq(s, LAMBDA c : c \notin Whitespace)

\* String.prototype.substring(a, b): both ends clamped to [0, length], swapped
\* when a > b; 0-based, end exclusive
substring(s, a, b) ==
    LET ca == Max(0, Min(a, Len(s)))
        cb == Max(0, Min(b, Len(s)))
        lo == Min(ca, cb)
        hi == Max(ca, cb)
    IN  SubSeq(s, lo + 1, hi)

\* String.prototype.substring(a)
substringFrom(s, a) == substring(s, a, Len(s))

\* parseInt(s, 10) on a string of hex digits: the value of the longest prefix
\* of decimal digits, NaN when the first character is not a decimal digit
NaN == -1
RECURSIVE DecPrefixValue(_, _)
DecPrefixValue(s, acc) ==
    IF s = << >> \/ Head(s) \notin DecDigits THEN acc
    ELSE DecPrefixValue(Tail(s), acc * 10 + HexVal(Head(s)))
parseInt10(s) ==
    IF s = << >> \/ Head(s) \notin DecDigits THEN NaN ELSE DecPrefixValue(s, 0)
isNaN(v) == v = NaN

(***************************************************************************)
(* Byte/value codecs (parser.ts:61-78).                                    *)
(***************************************************************************)
\* parseInt(h, 16).toString(2).padStart(4, '0'), bit k of 4 (k = 0 is the MSB)
NibbleBit(h, k) ==
    LET v == HexVal(h)
        b == CASE k = 0 -> (v \div 8) % 2
               [] k = 1 -> (v \div 4) % 2
               [] k = 2 -> (v \div 2) % 2
               [] OTHER -> v % 2
    IN  IF b = 1 THEN "1" ELSE "0"

hexToBinary(h) ==
    [i \in 1..(4 * Len(h)) |-> NibbleBit(h[((i - 1) \div 4) + 1], (i - 1) % 4)]

\* code of the byte starting at 0-based offset i; a lone trailing nibble is
\* parsed on its own (parseInt of a 1-character substring)
ByteCode(h, i) ==
    IF i + 2 <= Len(h) THEN 16 * HexVal(h[i + 1]) + HexVal(h[i + 2])
    ELSE HexVal(h[i + 1])

AsciiChar(code) == IF code >= 32 /\ code <= 126 THEN PrintableAscii[code - 31] ELSE "."

hexToAscii(h) ==
    [k \in 1..((Len(h) + 1) \div 2) |-> AsciiChar(ByteCode(h, 2 * (k - 1)))]

(***************************************************************************)
(* Field Specification Table (fieldSpecs.ts, imported at parser.ts:2).     *)
(* The entries kept are the ones the preset builders document, two         *)
(* variable-length text/binary elements; the private-use number 63 is     *)
(* left without an entry.                                                  *)
(***************************************************************************)
FieldSpec(fmt, ty, maxLen, cat) ==
    [format |-> fmt, type |-> ty, maxLength |-> maxLen, category |-> cat]

FIELD_SPECS ==
    (2 :> FieldSpec("LLVAR", "n", 19, "card")) @@
    (3 :> FieldSpec("FIXED", "n", 6, "transaction")) @@
    (22 :> FieldSpec("FIXED", "n", 3, "pos")) @@
    (28 :> FieldSpec("FIXED", "x+n", 8, "amount")) @@
    (35 :> FieldSpec("LLVAR", "z", 37, "card")) @@
    (39 :> FieldSpec("FIXED", "an", 2, "response")) @@
    (48 :> FieldSpec("LLLVAR", "ans", 999, "additional")) @@
    (52 :> FieldSpec("FIXED", "b", 8, "security")) @@
    (55 :> FieldSpec("LLLVAR", "b", 255, "emv")) @@
    (70 :> FieldSpec("FIXED", "n", 3, "network"))

\* FIELD_SPECS[fieldNum] is undefined when there is no entry
HasSpec(fieldNum) == fieldNum \in DOMAIN FIELD_SPECS

(***************************************************************************)
(* MTI digit tables (fieldSpecs.ts, imported at parser.ts:2): four tables  *)
(* from one digit to a label and a sparse table from the 4-digit code to a *)
(* description.  A few entries stand for each table.                       *)
(***************************************************************************)
MTI_VERSION == ("0" :> "ISO 8583:1987") @@ ("1" :> "ISO 8583:1993")
MTI_CLASS == ("1" :> "Authorization") @@ ("8" :> "Network Management")
MTI_FUNCTION == ("0" :> "Request") @@ ("1" :> "Response")
MTI_ORIGIN == ("0" :> "Acquirer") @@ ("1" :> "Acquirer Repeat")
MTI_DESCRIPTIONS ==
    (<< "0", "1", "0", "0" >> :> "Authorization Request") @@
    (<< "0", "8", "0", "0" >> :> "Network Management Request")

(***************************************************************************)
(* decodeMTI (parser.ts:80-110).                                           *)
(***************************************************************************)
\* /^\d{4}$/.test(s)
IsFourDigits(s) == Len(s) = 4 /\ \A i \in 1..4 : s[i] \in DecDigits

\* digits[i] of mtiStr.split(''), "undefined" past the end
DigitAt(s, i) == IF i <= Len(s) THEN s[i] ELSE "undefined"

\* TABLE[key] || 'Unknown'
LabelOf(table, key) == IF key \in DOMAIN table THEN table[key] ELSE "Unknown"

\* { code: digits[i], label: TABLE[digits[i]] || 'Unknown' }
DigitInfo(table, digit) == [code |-> digit, label |-> LabelOf(table, digit)]

\* MTI_DESCRIPTIONS[mtiStr] || `Message Type ${mtiStr}`; the template string
\* is kept as its fixed text and the interpolated code
DescriptionOf(mtiStr) ==
    IF mtiStr \in DOMAIN MTI_DESCRIPTIONS
    THEN [text |-> MTI_DESCRIPTIONS[mtiStr], code |-> << >>]
    ELSE [text |-> "Message Type ", code |-> mtiStr]

\* variant: the ASCII form is recognised by its length alone
decodeMTI_NoDigitTest(mtiHex) ==
    LET ascii == hexToAscii(substring(mtiHex, 0, 8))
        mtiStr1 == IF Len(mtiHex) >= 8 THEN ascii ELSE mtiHex
        mtiStr == IF Len(mtiStr1) >= 4 THEN substring(mtiStr1, 0, 4) ELSE mtiStr1
    IN  [raw |-> mtiStr,
         version |-> DigitInfo(MTI_VERSION, DigitAt(mtiStr, 1)),
         messageClass |-> DigitInfo(MTI_CLASS, DigitAt(mtiStr, 2)),
         function |-> DigitInfo(MTI_FUNCTION, DigitAt(mtiStr, 3)),
         origin |-> DigitInfo(MTI_ORIGIN, DigitAt(mtiStr, 4)),
         description |-> DescriptionOf(mtiStr)]

decodeMTI(mtiHex) ==
    LET ascii == hexToAscii(substring(mtiHex, 0, 8))
        mtiStr1 == IF Len(mtiHex) >= 8 /\ IsFourDigits(ascii) THEN ascii ELSE mtiHex
        mtiStr == IF Len(mtiStr1) = 4 /\ IsFourDigits(mtiStr1) THEN mtiStr1
                  ELSE IF Len(mtiStr1) >= 4 THEN substring(mtiStr1, 0, 4)
                  ELSE mtiStr1
    IN  [raw |-> mtiStr,
         version |-> DigitInfo(MTI_VERSION, DigitAt(mtiStr, 1)),
         messageClass |-> DigitInfo(MTI_CLASS, DigitAt(mtiStr, 2)),
         function |-> DigitInfo(MTI_FUNCTION, DigitAt(mtiStr, 3)),
         origin |-> DigitInfo(MTI_ORIGIN, DigitAt(mtiStr, 4)),
         description |-> DescriptionOf(mtiStr)]

(***************************************************************************)
(* decodeBitmap (parser.ts:112-124).                                       *)
(***************************************************************************)
\* the positions i + 1 with binary[i] === '1', in the order of the scan
ScanBits(binary, i) ==
    SelectSeq([k \in 1..Len(binary) |-> k], LAMBDA k : k >= i /\ binary[k] = "1")

decodeBitmap(hexStr) ==
    LET binary == hexToBinary(hexStr)
    IN  [activeFields |-> ScanBits(binary, 1), binary |-> binary]

\* variant: position 1 is kept among the active fields
PrimaryFilter_FromOne(fs) == SelectSeq(fs, LAMBDA f : f >= 1 /\ f <= 64)

\* Array.prototype.filter(f => f >= 2 && f <= 64)           (parser.ts:192)
PrimaryFilter(fs) == SelectSeq(fs, LAMBDA f : f >= 2 /\ f <= 64)

\* variant: the secondary bitmap's positions are offset by 63
SecondaryOffset_Off63(fs) == [i \in 1..Len(fs) |-> fs[i] + 63]

\* Array.prototype.map(f => f + 64)                          (parser.ts:219)
SecondaryOffset(fs) == [i \in 1..Len(fs) |-> fs[i] + 64]

(***************************************************************************)
(* Message builders of the presets (src/unnamed/part_000:14-77).           *)
(***************************************************************************)
\* byte.toString(16).padStart(2, '0').toUpperCase()
ByteToHex(b) == << HexDigits[(b \div 16) + 1], HexDigits[(b % 16) + 1] >>

\* the byte i (0-based) of a 64-bit array: byte = (byte << 1) | bits[i*8+b]
BitsByte(bits, i) ==
    128 * bits[8 * i + 1] + 64 * bits[8 * i + 2] + 32 * bits[8 * i + 3]
    + 16 * bits[8 * i + 4] + 8 * bits[8 * i + 5] + 4 * bits[8 * i + 6]
    + 2 * bits[8 * i + 7] + bits[8 * i + 8]

BitsToHex(bits) ==
    ByteToHex(BitsByte(bits, 0)) \o ByteToHex(BitsByte(bits, 1)) \o
    ByteToHex(BitsByte(bits, 2)) \o ByteToHex(BitsByte(bits, 3)) \o
    ByteToHex(BitsByte(bits, 4)) \o ByteToHex(BitsByte(bits, 5)) \o
    ByteToHex(BitsByte(bits, 6)) \o ByteToHex(BitsByte(bits, 7))

\* buildBitmap(fields): bits[f - 1] = 1 for every f in 1..64
buildBitmap(fs) ==
    BitsToHex([i \in 1..64 |-> IF i \in fs THEN 1 ELSE 0])

\* buildDualBitmap(fields)
buildDualBitmap(fs) ==
    LET primaryFields0 == { f \in fs : f <= 64 }
        secondaryFields == { f \in fs : f > 64 }
        primaryFields == IF secondaryFields # {} THEN primaryFields0 \cup {1}
                         ELSE primaryFields0
        primary == buildBitmap(primaryFields)
        secBits == [i \in 1..64 |-> IF (i + 64) \in secondaryFields THEN 1 ELSE 0]
    IN  IF secondaryFields = {} THEN primary ELSE primary \o BitsToHex(secBits)

\* c.charCodeAt(0) of a printable character
CharCode(c) == (CHOOSE i \in 1..95 : PrintableAscii[i] = c) + 31

\* asciiToHex(str)
RECURSIVE asciiToHex(_)
asciiToHex(str) ==
    IF str = << >> THEN << >>
    ELSE ByteToHex(CharCode(Head(str))) \o asciiToHex(Tail(str))

\* String.prototype.padStart(n, '0')
RECURSIVE padStart0(_, _)
padStart0(s, n) == IF Len(s) >= n THEN s ELSE padStart0(<< "0" >> \o s, n)

\* numHex(val, maxLen)
numHex(val, maxLen) ==
    LET padded == padStart0(val, maxLen)
    IN  IF maxLen % 2 # 0 THEN << "0" >> \o padded ELSE padded

(***************************************************************************)
(* Records of the result (parser.ts:4-59).  An optional number that is not *)
(* set is -1.  A ParseError keeps which message template produced it       *)
(* (kind) and the number the template interpolates (count).                *)
(***************************************************************************)
ParseError(k, p, f, n) == [kind |-> k, position |-> p, field |-> f, count |-> n]

HexSegment(h, cat, s, e, d) ==
    [hex |-> h, category |-> cat, startPos |-> s, endPos |-> e, de |-> d]

ParsedField(d, spec, raw, val, len, s, e) ==
    [de |-> d, rawHex |-> raw, decodedValue |-> val, length |-> len,
     format |-> spec.format, type |-> spec.type, category |-> spec.category,
     startPos |-> s, endPos |-> e]

BitmapInfo(raw, bin, act, sec, s, e) ==
    [rawHex |-> raw, binary |-> bin, activeFields |-> act, hasSecondary |-> sec,
     startPos |-> s, endPos |-> e]

\* variant: no message is recognised as a missing-specification message
MessageIncludesNoSpec_Never(e) == FALSE

\* e.message.includes('No spec'): only the template of parser.ts:242 has it
MessageIncludesNoSpec(e) == e.kind = "NoSpec"
\* variant: no message is recognised as a trailing-data message
MessageIncludesUnparsed_Never(e) == FALSE

\* e.message.includes('unparsed'): only the template of parser.ts:402 has it
MessageIncludesUnparsed(e) == e.kind = "Unparsed"

\* variant: only the missing-specification errors are excluded
ComputeSuccess_NoSpecOnly(errs) ==
    SelectSeq(errs, LAMBDA e : ~MessageIncludesNoSpec(e)) = << >>

\* variant: rejected length prefixes are excluded as well
ComputeSuccess_LenientPrefix(errs) ==
    SelectSeq(errs, LAMBDA e : /\ ~MessageIncludesNoSpec(e)
                               /\ ~MessageIncludesUnparsed(e)
                               /\ e.kind \notin {"InvalidLLVAR", "InvalidLLLVAR"})
      = << >>

\* variant: the missing secondary bitmap is excluded as well
ComputeSuccess_SecondaryLenient(errs) ==
    SelectSeq(errs, LAMBDA e : /\ ~MessageIncludesNoSpec(e)
                               /\ ~MessageIncludesUnparsed(e)
                               /\ e.kind # "SecondaryShort")
      = << >>

\* errors.filter(e => !includes('No spec') && !includes('unparsed')).length === 0
ComputeSuccess(errs) ==
    SelectSeq(errs, LAMBDA e : ~MessageIncludesNoSpec(e) /\ ~MessageIncludesUnparsed(e))
      = << >>

(***************************************************************************)
(* parseISO8583 (parser.ts:127-421), one action per step.                  *)
(***************************************************************************)
\* !hex || hex.length < 4                                  (parser.ts:135)
TooShort(h) == h = << >> \/ Len(h) < 4

\* variant: the character class is the letters and digits up to G
IsHex_UpToG(h) ==
    Len(h) >= 1 /\ \A i \in 1..Len(h) : UpperChar(h[i]) \in HexChars \cup {"G"}

\* /^[0-9A-F]+$/i.test(hex)                                 (parser.ts:148)
IsHex(h) == Len(h) >= 1 /\ \A i \in 1..Len(h) : UpperChar(h[i]) \in HexChars

\* parser.ts:132-158: normalize, then the two fatal precondition checks
Precondition ==
    /\ pc = "start"
    /\ LET h == toUpperCase(stripWhitespace(inputHex))
       IN  /\ hex' = h
           /\ IF TooShort(h)
              THEN /\ errors' = << ParseError("InputTooShort", -1, -1, -1) >>
                   /\ pc' = "done"
              ELSE IF ~IsHex(h)
              THEN /\ errors' = << ParseError("InvalidChars", -1, -1, -1) >>
                   /\ pc' = "done"
              ELSE /\ errors' = errors
                   /\ pc' = "mti"
    /\ success' = FALSE
    /\ UNCHANGED <<binVars, inputHex, gen, prev, pos, mti, primaryBitmap, secondaryBitmap,
                   allActiveFields, idx, fields, hexSegments>>

\* variant: the MTI segment is not recorded
ParseMTI_NoSegment ==
    /\ pc = "mti"
    /\ mti' = Some(decodeMTI(substring(hex, pos, pos + 4)))
    /\ pos' = pos + 4
    /\ pc' = "primary"
    /\ UNCHANGED <<binVars, inputHex, gen, prev, hex, primaryBitmap, secondaryBitmap,
                   allActiveFields, idx, fields, errors, success, hexSegments>>

\* variant: decodeMTI is handed the first eight characters
ParseMTI_EightChars ==
    /\ pc = "mti"
    /\ LET mtiHex == substring(hex, pos, pos + 4)
       IN  /\ mti' = Some(decodeMTI(substring(hex, pos, pos + 8)))
           /\ hexSegments' = Append(hexSegments, HexSegment(mtiHex, "mti", pos, pos + 4, -1))
    /\ pos' = pos + 4
    /\ pc' = "primary"
    /\ UNCHANGED <<binVars, inputHex, gen, prev, hex, primaryBitmap, secondaryBitmap,
                   allActiveFields, idx, fields, errors, success>>

\* parser.ts:160-172
ParseMTI ==
    /\ pc = "mti"
    /\ LET mtiHex == substring(hex, pos, pos + 4)
       IN  /\ mti' = Some(decodeMTI(mtiHex))
           /\ hexSegments' = Append(hexSegments, HexSegment(mtiHex, "mti", pos, pos + 4, -1))
    /\ pos' = pos + 4
    /\ pc' = "primary"
    /\ UNCHANGED <<binVars, inputHex, gen, prev, hex, primaryBitmap, secondaryBitmap,
                   allActiveFields, idx, fields, errors, success>>

\* the value returned at parser.ts:176
PrimaryShortfallSuccess == TRUE

\* parser.ts:174-204
ParsePrimaryBitmap ==
    /\ pc = "primary"
    /\ IF pos + 16 > Len(hex)
       THEN /\ success' = PrimaryShortfallSuccess
            /\ errors' = << ParseError("PrimaryShort", pos, -1, -1) >>
            /\ pc' = "done"
            /\ UNCHANGED <<primaryBitmap, hexSegments, pos>>
       ELSE LET primaryBitmapHex == substring(hex, pos, pos + 16)
                primaryDecoded == decodeBitmap(primaryBitmapHex)
            IN  /\ primaryBitmap' = Some(BitmapInfo(primaryBitmapHex,
                                       primaryDecoded.binary,
                                       PrimaryFilter(primaryDecoded.activeFields),
                                       primaryDecoded.binary[1] = "1",
                                       pos, pos + 16))
                /\ hexSegments' = Append(hexSegments,
                                    HexSegment(primaryBitmapHex, "bitmap", pos, pos + 16, -1))
                /\ pos' = pos + 16
                /\ pc' = "secondary"
                /\ UNCHANGED <<errors, success>>
    /\ UNCHANGED <<binVars, inputHex, gen, prev, hex, mti, secondaryBitmap, allActiveFields,
                   idx, fields>>

\* variant: a secondary bitmap that ends the input counts as missing
SecondaryShort_Inclusive == pos + 16 >= Len(hex)

\* pos + 16 > hex.length                                       (parser.ts:211)
SecondaryShort == pos + 16 > Len(hex)

\* parser.ts:206-234
ParseSecondaryBitmap ==
    /\ pc = "secondary"
    /\ LET primary == primaryBitmap[1]
       IN  IF ~primary.hasSecondary
           THEN /\ allActiveFields' = primary.activeFields
                /\ UNCHANGED <<secondaryBitmap, hexSegments, pos, errors>>
           ELSE IF SecondaryShort
           THEN /\ errors' = Append(errors, ParseError("SecondaryShort", pos, -1, -1))
                /\ allActiveFields' = primary.activeFields
                /\ UNCHANGED <<secondaryBitmap, hexSegments, pos>>
           ELSE LET secondaryBitmapHex == substring(hex, pos, pos + 16)
                    secondaryDecoded == decodeBitmap(secondaryBitmapHex)
                    sec == BitmapInfo(secondaryBitmapHex, secondaryDecoded.binary,
                                      SecondaryOffset(secondaryDecoded.activeFields),
                                      FALSE, pos, pos + 16)
                IN  /\ secondaryBitmap' = Some(sec)
                    /\ hexSegments' = Append(hexSegments,
                                        HexSegment(secondaryBitmapHex, "bitmap", pos, pos + 16, -1))
                    /\ allActiveFields' = primary.activeFields \o sec.activeFields
                    /\ pos' = pos + 16
                    /\ UNCHANGED errors
    /\ idx' = 1
    /\ pc' = "fields"
    /\ UNCHANGED <<binVars, inputHex, gen, prev, hex, mti, primaryBitmap, fields, success>>

(***************************************************************************)
(* The field loop (parser.ts:237-397): one action per iteration outcome.   *)
(* Nothing inside the try block throws, so the catch of parser.ts:370-373  *)
(* is never entered.                                                       *)
(***************************************************************************)
InLoop == pc = "fields" /\ idx <= Len(allActiveFields)
fieldNum == allActiveFields[idx]

\* variant: the cursor has to be past the end
RanOutOfData_Strict(p, h) == p > Len(h)

\* pos >= hex.length                                        (parser.ts:246)
RanOutOfData(p, h) == p >= Len(h)

\* variant: the prefix also counts as missing when it is all that remains
PrefixMissing_Inclusive(p, w, h) == p + w >= Len(h)

\* variant: only the cursor is tested, not the room for the prefix
PrefixMissing_CursorOnly(p, w, h) == p > Len(h)

\* pos + 2 > hex.length, pos + 4 > hex.length          (parser.ts:295, 334)
PrefixMissing(p, w, h) == p + w > Len(h)

\* parser.ts:259-272
FixedHexLen(spec) ==
    IF spec.type = "b" THEN spec.maxLength * 2
    ELSE IF spec.type = "n" \/ spec.type = "x+n"
         THEN (IF spec.maxLength % 2 # 0 THEN spec.maxLength + 1 ELSE spec.maxLength)
    ELSE spec.maxLength * 2

\* variant: an odd number of digits is not padded to a whole byte
VarHexLen_NoPadding(spec, dataLen) ==
    IF spec.type = "n" THEN dataLen ELSE dataLen * 2

\* parser.ts:309-314 and 347-352
VarHexLen(spec, dataLen) ==
    IF spec.type = "n" THEN (IF dataLen % 2 = 0 THEN dataLen ELSE dataLen + 1)
    ELSE dataLen * 2

\* parser.ts:284-291
FixedValue(spec, fieldHex) ==
    IF spec.type = "n" \/ spec.type = "x+n" THEN fieldHex
    ELSE IF spec.type = "b" THEN fieldHex
    ELSE hexToAscii(fieldHex)

\* parser.ts:326-330 and 364-368, p is the cursor after the data was consumed
VarValue(spec, h, p, hexLen) ==
    IF spec.type = "n" THEN substring(h, p - hexLen, p)
    ELSE hexToAscii(substring(h, p - hexLen, p))

\* parser.ts:303 and 342
LengthRejected(dataLen, spec) ==
    isNaN(dataLen) \/ dataLen < 0 \/ dataLen > spec.maxLength

\* variant: the segment's start is read from the cursor after it moved
EmitField_StartFromCursor(spec, fieldHex, fieldValue, fieldLength, fieldStartPos, newPos) ==
    /\ fields' = Append(fields, ParsedField(fieldNum, spec, fieldHex, fieldValue,
                                            fieldLength, fieldStartPos, newPos))
    /\ hexSegments' = Append(hexSegments,
                        HexSegment(fieldHex, spec.category, newPos, newPos, fieldNum))
    /\ pos' = newPos
    /\ idx' = idx + 1
    /\ pc' = pc

\* parser.ts:375-396: push the ParsedField and its segment, next iteration
EmitField(spec, fieldHex, fieldValue, fieldLength, fieldStartPos, newPos) ==
    /\ fields' = Append(fields, ParsedField(fieldNum, spec, fieldHex, fieldValue,
                                            fieldLength, fieldStartPos, newPos))
    /\ hexSegments' = Append(hexSegments,
                        HexSegment(fieldHex, spec.category, fieldStartPos, newPos, fieldNum))
    /\ pos' = newPos
    /\ idx' = idx + 1
    /\ pc' = pc

\* variant: the loop stays on the field without a specification
FieldNoSpec_NoAdvance ==
    /\ InLoop
    /\ ~HasSpec(fieldNum)
    /\ errors' = Append(errors, ParseError("NoSpec", -1, fieldNum, -1))
    /\ UNCHANGED <<binVars, inputHex, gen, prev, pc, hex, pos, mti, primaryBitmap, secondaryBitmap,
                   allActiveFields, idx, fields, hexSegments, success>>

\* parser.ts:240-244: no entry in the table, continue
FieldNoSpec ==
    /\ InLoop
    /\ ~HasSpec(fieldNum)
    /\ errors' = Append(errors, ParseError("NoSpec", -1, fieldNum, -1))
    /\ idx' = idx + 1
    /\ UNCHANGED <<binVars, inputHex, gen, prev, pc, hex, pos, mti, primaryBitmap, secondaryBitmap,
                   allActiveFields, fields, hexSegments, success>>

\* variant: the loop goes on to the next active field number
FieldRanOut_Continue ==
    /\ InLoop
    /\ HasSpec(fieldNum)
    /\ RanOutOfData(pos, hex)
    /\ errors' = Append(errors, ParseError("RanOut", pos, fieldNum, -1))
    /\ idx' = idx + 1
    /\ UNCHANGED <<binVars, inputHex, gen, prev, pc, hex, pos, mti, primaryBitmap, secondaryBitmap,
                   allActiveFields, fields, hexSegments, success>>

\* parser.ts:246-249: cursor at the end of the input, break
FieldRanOut ==
    /\ InLoop
    /\ HasSpec(fieldNum)
    /\ RanOutOfData(pos, hex)
    /\ errors' = Append(errors, ParseError("RanOut", pos, fieldNum, -1))
    /\ pc' = "trailing"
    /\ UNCHANGED <<binVars, inputHex, gen, prev, hex, pos, mti, primaryBitmap, secondaryBitmap,
                   allActiveFields, idx, fields, hexSegments, success>>

\* parser.ts:257-291 followed by 375-396
FieldFixed ==
    /\ InLoop
    /\ HasSpec(fieldNum)
    /\ ~RanOutOfData(pos, hex)
    /\ FIELD_SPECS[fieldNum].format = "FIXED"
    /\ LET spec == FIELD_SPECS[fieldNum]
           hexLen == FixedHexLen(spec)
           short == pos + hexLen > Len(hex)
           fieldHex == IF short THEN substringFrom(hex, pos)
                       ELSE substring(hex, pos, pos + hexLen)
           newPos == IF short THEN Len(hex) ELSE pos + hexLen
       IN  /\ errors' = IF short
                        THEN Append(errors, ParseError("FixedShort", pos, fieldNum,
                                                       Len(hex) - pos))
                        ELSE errors
           /\ EmitField(spec, fieldHex, FixedValue(spec, fieldHex), hexLen \div 2,
                        pos, newPos)
    /\ UNCHANGED <<binVars, inputHex, gen, prev, hex, mti, primaryBitmap, secondaryBitmap,
                   allActiveFields, success>>

\* variant: the cursor is not moved past the prefix
AfterPrefix_Stay(p, w) == p

\* pos += 2, pos += 4                                    (parser.ts:301, 340)
AfterPrefix(p, w) == p + w

\* parser.ts:293-330 (w = 2) and 332-368 (w = 4), followed by 375-396
VarFieldStep(w, kindPrefixShort, kindInvalid, kindDataShort) ==
    LET spec == FIELD_SPECS[fieldNum]
    IN  IF PrefixMissing(pos, w, hex)
        THEN \* break
             /\ errors' = Append(errors, ParseError(kindPrefixShort, pos, fieldNum, -1))
             /\ pc' = "trailing"
             /\ UNCHANGED <<pos, idx, fields, hexSegments>>
        ELSE LET lenStr == substring(hex, pos, pos + w)
                 dataLen == parseInt10(lenStr)
                 pos1 == AfterPrefix(pos, w)
             IN  IF LengthRejected(dataLen, spec)
                 THEN \* continue
                      /\ errors' = Append(errors,
                                     ParseError(kindInvalid, pos1 - w, fieldNum, -1))
                      /\ pos' = pos1
                      /\ idx' = idx + 1
                      /\ UNCHANGED <<pc, fields, hexSegments>>
                 ELSE LET hexLen == VarHexLen(spec, dataLen)
                          short == pos1 + hexLen > Len(hex)
                          fieldHex == IF short THEN lenStr \o substringFrom(hex, pos1)
                                      ELSE lenStr \o substring(hex, pos1, pos1 + hexLen)
                          newPos == IF short THEN Len(hex) ELSE pos1 + hexLen
                      IN  /\ errors' = IF short
                                       THEN Append(errors,
                                              ParseError(kindDataShort, pos1, fieldNum,
                                                         Len(hex) - pos1))
                                       ELSE errors
                          /\ EmitField(spec, fieldHex,
                                       VarValue(spec, hex, newPos, hexLen),
                                       dataLen, pos, newPos)

FieldLLVAR ==
    /\ InLoop
    /\ HasSpec(fieldNum)
    /\ ~RanOutOfData(pos, hex)
    /\ FIELD_SPECS[fieldNum].format = "LLVAR"
    /\ VarFieldStep(2, "LLVARPrefixShort", "InvalidLLVAR", "LLVARDataShort")
    /\ UNCHANGED <<binVars, inputHex, gen, prev, hex, mti, primaryBitmap, secondaryBitmap,
                   allActiveFields, success>>

FieldLLLVAR ==
    /\ InLoop
    /\ HasSpec(fieldNum)
    /\ ~RanOutOfData(pos, hex)
    /\ FIELD_SPECS[fieldNum].format = "LLLVAR"
    /\ VarFieldStep(4, "LLLVARPrefixShort", "InvalidLLLVAR", "LLLVARDataShort")
    /\ UNCHANGED <<binVars, inputHex, gen, prev, hex, mti, primaryBitmap, secondaryBitmap,
                   allActiveFields, success>>

\* the for-of loop has no element left
FieldLoopEnd ==
    /\ pc = "fields"
    /\ idx > Len(allActiveFields)
    /\ pc' = "trailing"
    /\ UNCHANGED <<binVars, inputHex, gen, prev, hex, pos, mti, primaryBitmap, secondaryBitmap,
                   allActiveFields, idx, fields, errors, hexSegments, success>>

\* variant: the check also fires with the cursor at the end of the input
HasTrailing_Inclusive == pos <= Len(hex)

\* pos < hex.length                                           (parser.ts:400)
HasTrailing == pos < Len(hex)

\* parser.ts:399-420: trailing data check, success, return
Finish ==
    /\ pc = "trailing"
    /\ LET remaining == substringFrom(hex, pos)
           errs == IF HasTrailing
                   THEN Append(errors, ParseError("Unparsed", pos, -1, Len(remaining)))
                   ELSE errors
       IN  /\ errors' = errs
           /\ hexSegments' = IF HasTrailing
                             THEN Append(hexSegments,
                                    HexSegment(remaining, "error", pos, Len(hex), -1))
                             ELSE hexSegments
           /\ success' = ComputeSuccess(errs)
    /\ pc' = "done"
    /\ UNCHANGED <<binVars, inputHex, gen, prev, hex, pos, mti, primaryBitmap, secondaryBitmap,
                   allActiveFields, idx, fields>>

(***************************************************************************)
(* Inputs.  A built message is MTI + bitmap + one payload per field in     *)
(* ascending field order, as the preset builders put messages together     *)
(* (src/unnamed/part_000:81-102); it may then lose its last payloads or    *)
(* its last characters, or gain trailing characters.  Free-form inputs     *)
(* are all short strings over RawAlphabet.                                 *)
(***************************************************************************)
Str1(a) == << a >>
Str2(a, b) == << a, b >>
Str4(a, b, c, d) == << a, b, c, d >>

\* n.toString().padStart(w, '0'), for 0 <= n < 10000
RECURSIVE DecString(_, _)
DecString(n, w) ==
    IF w = 0 THEN << >>
    ELSE DecString(n \div 10, w - 1) \o << HexDigits[(n % 10) + 1] >>

\* a payload: the length prefix, the data as hex, the value written, and
\* whether the payload respects the field's specification
Payload(pre, dat, val, ok) == [prefix |-> pre, data |-> dat, value |-> val, valid |-> ok]

\* FIXED numeric: numHex(val, maxLength)
FixedNum(val, maxLen) ==
    LET h == numHex(val, maxLen) IN Payload(<< >>, h, h, TRUE)
\* FIXED binary or x+n: the hex digits as they are
FixedRaw(h) == Payload(<< >>, h, h, TRUE)
\* FIXED text: asciiToHex(text)
FixedText(text) == Payload(<< >>, asciiToHex(text), text, TRUE)
\* LLVAR / LLLVAR numeric: w-character decimal length, digits padded to even
VarNum(w, digits) ==
    LET h == IF Len(digits) % 2 # 0 THEN << "0" >> \o digits ELSE digits
    IN  Payload(DecString(Len(digits), w), h, h, TRUE)
\* LLVAR / LLLVAR text: length in characters (part_000:273-274)
VarText(w, text) == Payload(DecString(Len(text), w), asciiToHex(text), text, TRUE)
\* LLVAR / LLLVAR binary: length in bytes
VarBin(w, h) == Payload(DecString(Len(h) \div 2, w), h, h, TRUE)
\* a payload whose length prefix is not the decimal length of its data
Malformed(pre, dat) == Payload(pre, dat, dat, FALSE)

Payloads(f) ==
    CASE f = 2 -> << VarNum(2, Str2("1", "2")),
                     VarNum(2, << "1", "2", "3" >>),
                     VarNum(2, << >>),
                     Malformed(Str2("9", "9"), << >>),
                     Malformed(Str2("1", "A"), Str2("1", "2")),
                     Malformed(Str2("A", "1"), << >>) >>
      [] f = 3 -> << FixedNum(<< "1", "2", "3", "4", "5", "6" >>, 6) >>
      [] f = 22 -> << FixedNum(Str2("5", "1"), 3) >>
      [] f = 28 -> << FixedRaw(<< "C", "0", "0", "0", "0", "0", "1", "2" >>) >>
      [] f = 35 -> << VarText(2, << "4", "=", "1" >>),
                      Malformed(Str2("3", "8"), << >>) >>
      [] f = 39 -> << FixedText(Str2("0", "0")), FixedText(Str2("Z", "~")) >>
      [] f = 48 -> << VarText(4, Str2("A", "b")),
                      Malformed(Str4("1", "0", "0", "0"), << >>),
                      Malformed(Str4("0", "0", "1", "F"), Str2("4", "1")) >>
      [] f = 52 -> << FixedRaw(<< "0", "1", "2", "3", "4", "5", "6", "7",
                                  "8", "9", "A", "B", "C", "D", "E", "F" >>) >>
      [] f = 55 -> << VarBin(4, Str4("9", "F", "2", "6")) >>
      [] f = 70 -> << FixedNum(<< "3", "0", "1" >>, 3) >>
      [] OTHER -> << Payload(<< >>, << >>, << >>, FALSE) >>

\* the field numbers a built message may set
FieldPool == { 2, 3, 22, 28, 35, 39, 48, 52, 55, 63, 70 }
MTIs == { Str4("0", "8", "0", "0") }
Trails == { << >>, Str2("A", "B"), Str1("7") }
RawAlphabet == { "0", "a", "G", " ", "\n" }

\* the elements of a set of numbers in ascending order
RECURSIVE Ascending(_)
Ascending(S) ==
    IF S = {} THEN << >>
    ELSE LET m == CHOOSE x \in S : \A y \in S : x <= y
         IN  << m >> \o Ascending(S \ {m})

RECURSIVE ConcatPayloads(_, _, _)
ConcatPayloads(order, pay, n) ==
    IF n = 0 THEN << >>
    ELSE ConcatPayloads(order, pay, n - 1) \o pay[order[n]].prefix \o pay[order[n]].data

\* bit1 = TRUE sets bit 1 of the primary bitmap by hand without writing a
\* secondary bitmap (buildBitmap, not buildDualBitmap)
BuildMessage(m, F, pay, bit1, written, cut, trail) ==
    LET bitmap == IF bit1 THEN buildBitmap(F \cup {1}) ELSE buildDualBitmap(F)
        whole == m \o bitmap \o ConcatPayloads(Ascending(F), pay, written)
    IN  SubSeq(whole, 1, Len(whole) - cut) \o trail

\* the message is whole and every payload respects its specification
WellFormed(F, pay, bit1, written, cut, trail) ==
    /\ \A f \in F : HasSpec(f) /\ pay[f].valid
    /\ ~bit1
    /\ written = Cardinality(F)
    /\ cut = 0
    /\ trail = << >>

RawInputs == UNION { [1..n -> RawAlphabet] : n \in 0..MaxRawLen }

InitParser ==
    /\ InitBinData
    /\ pc = "start"
    /\ hex = << >>
    /\ pos = 0
    /\ mti = Null
    /\ primaryBitmap = Null
    /\ secondaryBitmap = Null
    /\ allActiveFields = << >>
    /\ idx = 1
    /\ fields = << >>
    /\ errors = << >>
    /\ hexSegments = << >>
    /\ success = FALSE
    /\ prev = Null

\* the sets of field numbers and the payload choices of the built messages
FieldSets == { F \in SUBSET FieldPool : Cardinality(F) <= MaxFields }
Choices(F) == { ch \in [F -> 1..6] : \A f \in F : ch[f] <= Len(Payloads(f)) }
Bit1Options(F) == IF \A f \in F : f <= 64 THEN BOOLEAN ELSE { FALSE }

InitBuilt ==
    \E m \in MTIs, F \in FieldSets :
      \E ch \in Choices(F), bit1 \in Bit1Options(F) :
        LET pay == [f \in F |-> Payloads(f)[ch[f]]]
        IN  \E written \in 0..Cardinality(F), cut \in 0..MaxCut, trail \in Trails :
              /\ trail # << >> => (cut = 0 /\ written = Cardinality(F))
              /\ inputHex = BuildMessage(m, F, pay, bit1, written, cut, trail)
              /\ gen = [kind |-> "built", F |-> F, pay |-> pay, bit1 |-> bit1,
                        written |-> written, cut |-> cut, trail |-> trail,
                        valid |-> WellFormed(F, pay, bit1, written, cut, trail)]

InitRaw ==
    \E s \in RawInputs :
      /\ inputHex = s
      /\ gen = [kind |-> "raw", F |-> {}, pay |-> << >>, bit1 |-> FALSE,
                written |-> 0, cut |-> 0, trail |-> << >>, valid |-> FALSE]

\* hand-written bitmaps: all bits, no bit, the two end bits, mixed patterns
HexString(digits) == [i \in 1..Len(digits) |-> HexDigits[digits[i] + 1]]
BitmapSamples ==
    { HexString(<< 15, 15, 15, 15, 15, 15, 15, 15, 15, 15, 15, 15, 15, 15, 15, 15 >>),
      HexString(<< 0, 0, 0, 0, 0, 0, 0, 0, 0, 0, 0, 0, 0, 0, 0, 0 >>),
      HexString(<< 8, 0, 0, 0, 0, 0, 0, 0, 0, 0, 0, 0, 0, 0, 0, 1 >>),
      HexString(<< 7, 15, 15, 15, 15, 15, 15, 15, 15, 15, 15, 15, 15, 15, 15, 14 >>),
      HexString(<< 0, 1, 2, 3, 4, 5, 6, 7, 8, 9, 10, 11, 12, 13, 14, 15 >>),
      HexString(<< 10, 5, 10, 5, 10, 5, 10, 5, 10, 5, 10, 5, 10, 5, 10, 5 >>),
      HexString(<< 12, 0, 0, 0, 0, 0, 0, 0, 0, 0, 0, 0, 0, 0, 0, 0 >>) }

\* what follows the sampled primary bitmap: nothing, 15 characters, or a
\* sampled second bitmap
RestSamples ==
    { << >>, HexString(<< 0, 1, 2, 3, 4, 5, 6, 7, 8, 9, 10, 11, 12, 13, 14 >>) }
      \cup BitmapSamples

InitSample ==
    \E m \in MTIs, bm \in BitmapSamples, rest \in RestSamples :
      /\ inputHex = m \o bm \o rest
      /\ gen = [kind |-> "sample", F |-> {}, pay |-> << >>, bit1 |-> FALSE,
                written |-> 0, cut |-> 0, trail |-> << >>, valid |-> FALSE]

\* a message whose MTI is sent as four ASCII characters (eight hex digits),
\* the form decodeMTI recognises at parser.ts:85-91
InitAscii ==
    \E m \in MTIs, bm \in BitmapSamples :
      /\ inputHex = asciiToHex(m) \o bm
      /\ gen = [kind |-> "ascii", F |-> {}, pay |-> << >>, bit1 |-> FALSE,
                written |-> 0, cut |-> 0, trail |-> << >>, valid |-> FALSE]

Init == InitParser /\ (InitBuilt \/ InitRaw \/ InitSample \/ InitAscii)

Next ==
    \/ Precondition
    \/ ParseMTI
    \/ ParsePrimaryBitmap
    \/ ParseSecondaryBitmap
    \/ FieldNoSpec
    \/ FieldRanOut
    \/ FieldFixed
    \/ FieldLLVAR
    \/ FieldLLLVAR
    \/ FieldLoopEnd
    \/ Finish

Spec == Init /\ [][Next]_vars

(***************************************************************************)
(* The invocation under fairness.  JavaScript runs a called function to    *)
(* completion, so a step that can be taken is taken.  The inputs are the   *)
(* sampled bitmaps, the free-form strings and whole or cut messages over a *)
(* few pairs of field numbers that between them have every format, a       *)
(* number without specification and a secondary field.                     *)
(***************************************************************************)
FairFieldSets == { {2, 63}, {3, 70}, {35, 48}, {39, 52}, {22, 55} }

InitFairBuilt ==
    \E m \in MTIs, F \in FairFieldSets :
      \E ch \in Choices(F), cut \in { 0, MaxCut }, trail \in Trails :
        LET pay == [f \in F |-> Payloads(f)[ch[f]]]
            written == Cardinality(F)
        IN  /\ trail # << >> => cut = 0
            /\ inputHex = BuildMessage(m, F, pay, FALSE, written, cut, trail)
            /\ gen = [kind |-> "built", F |-> F, pay |-> pay, bit1 |-> FALSE,
                      written |-> written, cut |-> cut, trail |-> trail,
                      valid |-> WellFormed(F, pay, FALSE, written, cut, trail)]

InitFair == InitParser /\ (InitFairBuilt \/ InitRaw \/ InitSample)

FairSpec == InitFair /\ [][Next]_vars /\ WF_vars(Next)

(***************************************************************************)
(* Two invocations in a row, as the page makes them when the text changes  *)
(* (README.md:1618-1622): after the first return parseISO8583 is called    *)
(* again on the same text or on a text related to it.  prev keeps the      *)
(* first argument and ParseResult.                                         *)
(***************************************************************************)
MaxGapPos == 4   \* last inner position at which a whitespace character is put

\* the ParseResult returned at parser.ts:412-420
Result ==
    [success |-> success, mti |-> mti, primaryBitmap |-> primaryBitmap,
     secondaryBitmap |-> secondaryBitmap, fields |-> fields, errors |-> errors,
     hexSegments |-> hexSegments]

\* String.prototype.toLowerCase, one character
LowerChar(c) ==
    IF \E i \in 1..26 : UpperLetters[i] = c
    THEN LowerLetters[CHOOSE i \in 1..26 : UpperLetters[i] = c]
    ELSE c

toLowerCase(s) == [i \in 1..Len(s) |-> LowerChar(s[i])]

\* s with the character w put after its first k characters
InsertAt(s, k, w) == SubSeq(s, 1, k) \o << w >> \o SubSeq(s, k + 1, Len(s))

GapPositions(s) == { k \in 0..Len(s) : k <= MaxGapPos \/ k = Len(s) }

StrayTails == Trails \ { << >> }

\* variant: the error list is a module-level array shared by the invocations
FreshErrors_Shared == errors

\* const errors: ParseError[] = []                            (parser.ts:128)
FreshErrors == << >>

\* a new call: its own locals, the earlier call's result kept by the caller
InvokeAgain(input, rel, arg) ==
    /\ pc = "done"
    /\ prev = Null
    /\ prev' = Some([input |-> inputHex, rel |-> rel, arg |-> arg, result |-> Result])
    /\ inputHex' = input
    /\ pc' = "start"
    /\ hex' = << >>
    /\ pos' = 0
    /\ mti' = Null
    /\ primaryBitmap' = Null
    /\ secondaryBitmap' = Null
    /\ allActiveFields' = << >>
    /\ idx' = 1
    /\ fields' = << >>
    /\ errors' = FreshErrors
    /\ hexSegments' = << >>
    /\ success' = FALSE
    /\ UNCHANGED <<binVars, gen>>

InvokeAgainSame == InvokeAgain(inputHex, "same", << >>)

InvokeAgainWithTail == \E T \in StrayTails : InvokeAgain(inputHex \o T, "tail", T)

InvokeAgainSpaced ==
    \E w \in { " ", "\n", "\r" }, k \in GapPositions(inputHex) :
        InvokeAgain(InsertAt(inputHex, k, w), "spaced", << w >>)

InvokeAgainRecased ==
    \/ InvokeAgain(toLowerCase(inputHex), "recased", << >>)
    \/ InvokeAgain(toUpperCase(inputHex), "recased", << >>)

NextPair ==
    \/ Next
    \/ InvokeAgainSame
    \/ InvokeAgainWithTail
    \/ InvokeAgainSpaced
    \/ InvokeAgainRecased

SpecPair == InitFair /\ [][NextPair]_vars

(***************************************************************************)
(* decodeMTI on its own (parser.ts:80-110, an exported function): one      *)
(* behaviour is one call.  inputHex holds the argument mtiHex, mti the     *)
(* returned MTIInfo; the other variables keep their initial values.        *)
(***************************************************************************)
MaxFragBytes == 4   \* most whole bytes of a fragment

\* bytes of ASCII digits, of neighbours of the digit range, of a letter, and
\* packed digits
ByteSamples == { Str2("3", "0"), Str2("3", "1"), Str2("3", "9"), Str2("3", "A"),
                 Str2("2", "F"), Str2("4", "1"), Str2("0", "1"), Str2("0", "0") }

RECURSIVE Flatten(_)
Flatten(ss) == IF ss = << >> THEN << >> ELSE Head(ss) \o Flatten(Tail(ss))

\* whole bytes, optionally followed by one more hex character
Fragments ==
    { Flatten(bs) \o odd :
        bs \in UNION { [1..n -> ByteSamples] : n \in 0..MaxFragBytes },
        odd \in { << >>, Str1("3"), Str1("F") } }

InitMTI ==
    /\ InitBinData
    /\ pc = "decodeMTI"
    /\ inputHex \in Fragments
    /\ gen = [kind |-> "fragment", F |-> {}, pay |-> << >>, bit1 |-> FALSE,
              written |-> 0, cut |-> 0, trail |-> << >>, valid |-> FALSE]
    /\ hex = << >>
    /\ pos = 0
    /\ mti = Null
    /\ primaryBitmap = Null
    /\ secondaryBitmap = Null
    /\ allActiveFields = << >>
    /\ idx = 1
    /\ fields = << >>
    /\ errors = << >>
    /\ hexSegments = << >>
    /\ success = FALSE
    /\ prev = Null

CallDecodeMTI ==
    /\ pc = "decodeMTI"
    /\ mti' = Some(decodeMTI(inputHex))
    /\ pc' = "returned"
    /\ UNCHANGED <<binVars, inputHex, gen, prev, hex, pos, primaryBitmap, secondaryBitmap,
                   allActiveFields, idx, fields, errors, hexSegments, success>>

NextMTI == CallDecodeMTI

SpecMTI == InitMTI /\ [][NextMTI]_vars

(***************************************************************************)
(* Properties of a finished invocation.                                    *)
(***************************************************************************)
Done == pc = "done"
FieldNumbers(fs) == [i \in 1..Len(fs) |-> fs[i].de]
ErrorKinds == { errors[i].kind : i \in 1..Len(errors) }
ExcludedKinds == { "NoSpec", "Unparsed" }
InvalidPrefixKinds == { "InvalidLLVAR", "InvalidLLLVAR" }

\* C1: a message built from a set F of specified field numbers with one valid
\* payload per field decodes into fields whose numbers are exactly F in
\* ascending order, with no error and success = true.
C1_RoundTripFieldNumbers ==
    (Done /\ gen.valid) =>
        /\ FieldNumbers(fields) = Ascending(gen.F)
        /\ errors = << >>
        /\ success = TRUE

\* a whole valid message with a primary and a secondary field was decoded
C1_Witness ==
    /\ Done /\ gen.valid
    /\ \E f \in gen.F : f <= 64
    /\ \E f \in gen.F : f > 64
    /\ Len(fields) = 2

\* C2: in a message built from valid payloads every ParsedField's
\* decodedValue equals the payload written for it (raw hex for numeric and
\* binary, text for text types), for FIXED, LLVAR and LLLVAR alike.
C2_RoundTripValues ==
    (Done /\ gen.valid) =>
        \A i \in 1..Len(fields) :
            fields[i].decodedValue = gen.pay[fields[i].de].value

\* C3: when the primary bitmap was parsed, success is true exactly when the
\* error list holds nothing but missing-specification and trailing-unparsed
\* errors.
C3_SuccessIffOnlyExcludedErrors ==
    (Done /\ primaryBitmap # Null) =>
        (success = TRUE <=> ErrorKinds \subseteq ExcludedKinds)

\* a successful result that carries both excluded kinds of error
C3_Witness ==
    /\ Done /\ primaryBitmap # Null
    /\ success = TRUE
    /\ ErrorKinds = ExcludedKinds

\* C4 as stated: a rejected length prefix does not affect success; when it is
\* the only kind of error besides the two excluded kinds, success = true and
\* the offending field is absent from fields.
C4_InvalidPrefixKeepsSuccess ==
    (/\ Done
     /\ ErrorKinds \cap InvalidPrefixKinds # {}
     /\ ErrorKinds \subseteq InvalidPrefixKinds \cup ExcludedKinds) =>
        /\ success = TRUE
        /\ \A i \in 1..Len(errors) :
              errors[i].kind \in InvalidPrefixKinds =>
                  \A j \in 1..Len(fields) : fields[j].de # errors[i].field

\* C4 amended: a rejected length prefix leaves the offending field out of
\* fields and makes success false.
C4_InvalidPrefixFailsSuccess ==
    (Done /\ ErrorKinds \cap InvalidPrefixKinds # {}) =>
        /\ success = FALSE
        /\ \A i \in 1..Len(errors) :
              errors[i].kind \in InvalidPrefixKinds =>
                  \A j \in 1..Len(fields) : fields[j].de # errors[i].field

\* DE2 with prefix "99" was rejected as the only error, a later field parsed
C4_Witness ==
    /\ Done
    /\ ErrorKinds = { "InvalidLLVAR" }
    /\ \E i \in 1..Len(errors) : errors[i].field = 2
    /\ substring(hex, 20, 22) = << "9", "9" >>
    /\ Len(fields) = 1

\* C5: valid hex of at least 4 characters with fewer than 16 after the MTI
\* gives success = false.
C5_PrimaryShortfallFails ==
    (Done /\ Len(hex) >= 4 /\ IsHex(hex) /\ Len(hex) - 4 < 16) => success = FALSE

ShortfallKinds == { "FixedShort", "LLVARDataShort", "LLLVARDataShort" }
PrefixShortKinds == { "LLVARPrefixShort", "LLLVARPrefixShort" }

\* the 1-based place of x in a sequence without repetitions, 0 when absent
IndexOf(seq, x) ==
    IF \E k \in 1..Len(seq) : seq[k] = x
    THEN CHOOSE k \in 1..Len(seq) : seq[k] = x
    ELSE 0

\* g is an active field number the loop reaches after f
LaterActive(f, g) ==
    /\ IndexOf(allActiveFields, f) > 0
    /\ IndexOf(allActiveFields, g) > IndexOf(allActiveFields, f)

\* C6 as stated: after a FIXED or data shortfall the cursor is at the end of
\* the input and the loop is over: no error and no ParsedField is recorded
\* for any later active field number.
C6_ShortfallStopsLoop ==
    Done =>
        \A i \in 1..Len(errors) :
            errors[i].kind \in ShortfallKinds =>
                /\ pos = Len(hex)
                /\ \A j \in 1..Len(errors) : ~LaterActive(errors[i].field, errors[j].field)
                /\ \A j \in 1..Len(fields) : ~LaterActive(errors[i].field, fields[j].de)

\* the errors the loop logs from the active field at place k on, once the
\* cursor is at the end of the input
RECURSIVE ExhaustedTail(_)
ExhaustedTail(k) ==
    IF k > Len(allActiveFields) THEN << >>
    ELSE IF ~HasSpec(allActiveFields[k])
         THEN << ParseError("NoSpec", -1, allActiveFields[k], -1) >> \o ExhaustedTail(k + 1)
         ELSE << ParseError("RanOut", Len(hex), allActiveFields[k], -1) >>

\* C6 amended: after a FIXED or data shortfall the field is emitted with what
\* remains and the cursor is at the end of the input; no ParsedField is
\* recorded for a later active field number; the loop goes on: every later
\* active number without a specification logs its missing-specification
\* error, until the first later number with a specification logs one
\* ran-out-of-data error and stops the loop.
C6_ShortfallThenRanOut ==
    Done =>
        \A i \in 1..Len(errors) :
            errors[i].kind \in ShortfallKinds =>
                LET f == errors[i].field
                IN  /\ pos = Len(hex)
                    /\ fields # << >>
                    /\ fields[Len(fields)].de = f
                    /\ fields[Len(fields)].endPos = Len(hex)
                    /\ fields[Len(fields)].rawHex
                         = substringFrom(hex, fields[Len(fields)].startPos)
                    /\ SubSeq(errors, i + 1, Len(errors))
                         = ExhaustedTail(IndexOf(allActiveFields, f) + 1)

\* a truncated field was followed by the ran-out-of-data error of a later one
C6_Witness ==
    /\ Done
    /\ Len(errors) = 2
    /\ errors[1].kind \in ShortfallKinds
    /\ errors[2].kind = "RanOut"
    /\ LaterActive(errors[1].field, errors[2].field)

PrefixWidth(format) == CASE format = "LLVAR" -> 2 [] format = "LLLVAR" -> 4 [] OTHER -> 0

\* the hex characters a complete field takes, prefix included
FullLength(fl) ==
    IF fl.format = "FIXED" THEN FixedHexLen(FIELD_SPECS[fl.de])
    ELSE PrefixWidth(fl.format) + VarHexLen(FIELD_SPECS[fl.de], fl.length)

\* C7 as stated: a ParsedField is emitted only for an active field that has a
\* specification and for which enough hex characters remained for the prefix
\* and the full data.
C7_OnlyCompleteFields ==
    Done =>
        \A j \in 1..Len(fields) :
            /\ HasSpec(fields[j].de)
            /\ fields[j].endPos - fields[j].startPos = FullLength(fields[j])

\* C7 amended: a ParsedField is emitted only for an active field that has a
\* specification and whose length prefix, if it has one, was read in full and
\* accepted; when the data is short the field is emitted with what remains,
\* with an error, and ends at the end of the input.  When fewer hex
\* characters remain than the prefix width where an LLVAR or LLLVAR field is
\* expected (1 for LLVAR), one error is recorded, the cursor stays, the loop
\* stops, fields holds only fields parsed before it and success = false.
C7_EmittedFieldsAndPrefixShortfall ==
    Done =>
        /\ \A j \in 1..Len(fields) :
              LET fl == fields[j]
                  w == PrefixWidth(fl.format)
              IN  /\ HasSpec(fl.de)
                  /\ IndexOf(allActiveFields, fl.de) > 0
                  /\ Len(fl.rawHex) >= w
                  /\ w > 0 =>
                        /\ Head(fl.rawHex) \in DecDigits
                        /\ fl.length = DecPrefixValue(SubSeq(fl.rawHex, 1, w), 0)
                        /\ fl.length <= FIELD_SPECS[fl.de].maxLength
                  /\ \/ fl.endPos - fl.startPos = FullLength(fl)
                     \/ /\ fl.endPos - fl.startPos < FullLength(fl)
                        /\ fl.endPos = Len(hex)
                        /\ \E i \in 1..Len(errors) :
                              errors[i].kind \in ShortfallKinds /\ errors[i].field = fl.de
        /\ \A i \in 1..Len(errors) :
              errors[i].kind \in PrefixShortKinds =>
                  LET e == errors[i]
                      w == PrefixWidth(FIELD_SPECS[e.field].format)
                  IN  /\ Len(hex) - e.position >= 1
                      /\ Len(hex) - e.position < w
                      /\ pos = e.position
                      /\ \A j \in 1..Len(fields) : LaterActive(fields[j].de, e.field)
                      /\ \A k \in (i + 1)..Len(errors) : errors[k].kind = "Unparsed"
                      /\ success = FALSE

\* one hex character was left where an LLVAR field was expected, after an
\* earlier field had been parsed
C7_Witness ==
    /\ Done
    /\ \E i \in 1..Len(errors) :
          /\ errors[i].kind = "LLVARPrefixShort"
          /\ Len(hex) - errors[i].position = 1
    /\ Len(fields) >= 1
    /\ success = FALSE

RECURSIVE ConcatHex(_)
ConcatHex(segs) ==
    IF segs = << >> THEN << >> ELSE Head(segs).hex \o ConcatHex(Tail(segs))

\* C8: once the field loop was reached, the segments tile a prefix of the
\* normalized input: no gap, no overlap, their hex concatenated is that
\* prefix, and with a trailing unparsed segment it is the whole input.
C8_SegmentTiling ==
    (Done /\ primaryBitmap # Null) =>
        LET cat == ConcatHex(hexSegments)
            n == Len(hexSegments)
        IN  /\ cat = SubSeq(hex, 1, Len(cat))
            /\ hexSegments[1].startPos = 0
            /\ \A k \in 1..(n - 1) : hexSegments[k + 1].startPos = hexSegments[k].endPos
            /\ hexSegments[n].category = "error" => cat = hex

IsVarFormat(f) == FIELD_SPECS[f].format \in { "LLVAR", "LLLVAR" }

\* C9: an LLVAR/LLLVAR length prefix that holds a hex letter in any position,
\* or whose value exceeds maxLength, logs exactly one error for the field and
\* emits no ParsedField.
C9_BadPrefixRejected ==
    [][ (/\ InLoop
         /\ HasSpec(fieldNum)
         /\ IsVarFormat(fieldNum)
         /\ pos + PrefixWidth(FIELD_SPECS[fieldNum].format) <= Len(hex)
         /\ LET lenStr == substring(hex, pos, pos + PrefixWidth(FIELD_SPECS[fieldNum].format))
            IN  \/ \E k \in 1..Len(lenStr) : lenStr[k] \notin DecDigits
                \/ DecPrefixValue(lenStr, 0) > FIELD_SPECS[fieldNum].maxLength)
        => (/\ Len(errors') = Len(errors) + 1
            /\ errors'[Len(errors')].field = fieldNum
            /\ fields' = fields) ]_vars

\* the normalized input as the claim describes it: whitespace removed
NonBlank == SelectSeq(inputHex, LAMBDA c : c \notin Whitespace)
HasNonHexChar ==
    \E i \in 1..Len(NonBlank) :
        NonBlank[i] \notin HexChars \cup { "a", "b", "c", "d", "e", "f" }

\* C10: an input that, whitespace removed, has fewer than 4 characters or
\* holds a character that is not a hex digit gives the failure-only result.
C10_FatalPrecondition ==
    (Done /\ (Len(NonBlank) < 4 \/ HasNonHexChar)) =>
        /\ success = FALSE
        /\ mti = Null
        /\ primaryBitmap = Null
        /\ secondaryBitmap = Null
        /\ fields = << >>
        /\ hexSegments = << >>
        /\ Len(errors) = 1

\* four characters are left after the whitespace is removed, one is not hex
C10_Witness ==
    /\ Done
    /\ Len(inputHex) > Len(NonBlank)
    /\ Len(NonBlank) >= 4
    /\ HasNonHexChar
    /\ Len(errors) = 1

(***************************************************************************)
(* C11: when the normalized input is valid hex of at least 4 characters    *)
(* and fewer than 16 characters follow the MTI, the result has mti taken   *)
(* from the first 4 characters, both bitmaps absent, no fields, exactly    *)
(* one error, at position 4, and exactly one segment, the MTI over [0,4).  *)
(***************************************************************************)
PrimaryShortfallInput ==
    /\ Len(NonBlank) >= 4
    /\ ~HasNonHexChar
    /\ Len(NonBlank) - 4 < 16

\* the first 4 characters of the normalized (upper-cased) input
First4 == [i \in 1..4 |-> UpperChar(NonBlank[i])]

C11_PrimaryShortfallResult ==
    (Done /\ PrimaryShortfallInput) =>
        /\ mti # Null
        /\ mti[1].raw = First4
        /\ primaryBitmap = Null
        /\ secondaryBitmap = Null
        /\ fields = << >>
        /\ Len(errors) = 1
        /\ errors[1].position = 4
        /\ Len(hexSegments) = 1
        /\ hexSegments[1].category = "mti"
        /\ hexSegments[1].hex = First4
        /\ hexSegments[1].startPos = 0
        /\ hexSegments[1].endPos = 4

C11_Witness ==
    /\ Done
    /\ PrimaryShortfallInput
    /\ Len(NonBlank) > 4
    /\ Len(errors) = 1
    /\ errors[1].kind = "PrimaryShort"

(***************************************************************************)
(* C12: a parsed primary bitmap holds the 16 characters after the MTI, its *)
(* binary is the 64-character expansion of the hex digits, four bits each, *)
(* most significant first, hasSecondary is true exactly when bit 1 is 1,   *)
(* and activeFields is the ascending list of the positions 2..64 whose bit *)
(* is 1; position 1 is never among them.                                   *)
(***************************************************************************)
Pow2(k) == CASE k = 0 -> 1 [] k = 1 -> 2 [] k = 2 -> 4 [] OTHER -> 8

\* bit i (1-based, from the left) of a string of hex digits
BitSet(raw, i) ==
    (HexVal(raw[((i - 1) \div 4) + 1]) \div Pow2(3 - ((i - 1) % 4))) % 2 = 1

C12_PrimaryBitmapDecoding ==
    primaryBitmap # Null =>
        LET b == primaryBitmap[1]
        IN  /\ b.rawHex = SubSeq(hex, 5, 20)
            /\ Len(b.binary) = 64
            /\ \A i \in 1..64 : b.binary[i] = (IF BitSet(b.rawHex, i) THEN "1" ELSE "0")
            /\ b.hasSecondary = BitSet(b.rawHex, 1)
            /\ b.activeFields = Ascending({ i \in 2..64 : BitSet(b.rawHex, i) })
            /\ \A k \in 1..Len(b.activeFields) : b.activeFields[k] # 1

\* a decoded primary bitmap with bit 1 set and a mixed pattern of other bits
C12_Witness ==
    /\ primaryBitmap # Null
    /\ primaryBitmap[1].hasSecondary
    /\ Len(primaryBitmap[1].activeFields) = 31
    /\ primaryBitmap[1].activeFields[1] = 3

(***************************************************************************)
(* C13: once the bitmaps are read, secondaryBitmap is present exactly when *)
(* bit 1 of the primary bitmap is set and at least 16 characters follow    *)
(* the primary bitmap; a present secondary bitmap covers [20,36), its      *)
(* activeFields are the set positions plus 64 in ascending order (65..128) *)
(* and they are decoded after every primary field.                         *)
(***************************************************************************)
BitmapsRead == pc \in { "fields", "trailing", "done" } /\ primaryBitmap # Null

C13_SecondaryBitmap ==
    BitmapsRead =>
        LET p == primaryBitmap[1]
        IN  /\ secondaryBitmap # Null <=> (BitSet(p.rawHex, 1) /\ Len(hex) - 20 >= 16)
            /\ secondaryBitmap # Null =>
                  LET s == secondaryBitmap[1]
                  IN  /\ s.startPos = 20 /\ s.endPos = 36
                      /\ s.rawHex = SubSeq(hex, 21, 36)
                      /\ s.activeFields =
                            Ascending({ i + 64 : i \in { j \in 1..64 : BitSet(s.rawHex, j) } })
                      /\ \A k \in 1..Len(s.activeFields) :
                            s.activeFields[k] >= 65 /\ s.activeFields[k] <= 128
                      /\ allActiveFields = p.activeFields \o s.activeFields
            /\ \A i, j \in 1..Len(fields) :
                  i < j => /\ fields[i].de < fields[j].de
                           /\ fields[i].endPos <= fields[j].startPos

\* a secondary field was decoded after a primary field
C13_Witness ==
    /\ Done
    /\ secondaryBitmap # Null
    /\ Len(fields) = 2
    /\ fields[1].de <= 64
    /\ fields[2].de >= 65

\* a secondary bitmap with both end bits set, ending the input
C13_WitnessEndBits ==
    /\ Done
    /\ secondaryBitmap # Null
    /\ secondaryBitmap[1].activeFields = << 65, 128 >>
    /\ Len(hex) = 36

(***************************************************************************)
(* C14: when bit 1 of the primary bitmap is set and fewer than 16          *)
(* characters follow the primary bitmap, exactly one error is logged for   *)
(* it, secondaryBitmap stays absent, the cursor stays at 20, the field     *)
(* loop runs over the primary bitmap's active fields only, starting at 20, *)
(* and the final success is false.                                         *)
(***************************************************************************)
DegradedSecondary ==
    /\ primaryBitmap # Null
    /\ BitSet(primaryBitmap[1].rawHex, 1)
    /\ Len(hex) - 20 < 16

SecondaryShortErrors == SelectSeq(errors, LAMBDA e : e.kind = "SecondaryShort")

C14_DegradedSecondaryState ==
    (BitmapsRead /\ DegradedSecondary) =>
        /\ Len(SecondaryShortErrors) = 1
        /\ errors[1].kind = "SecondaryShort"
        /\ errors[1].position = 20
        /\ secondaryBitmap = Null
        /\ allActiveFields = primaryBitmap[1].activeFields
        /\ (pc = "fields" /\ idx = 1) => pos = 20
        /\ \A i \in 1..Len(fields) : fields[i].startPos >= 20
        /\ \A i \in 1..Len(fields) : fields[i].de <= 64
        /\ Done => success = FALSE

\* the step that finds the secondary bitmap missing leaves the cursor alone
C14_CursorNotAdvanced ==
    [][(pc = "secondary" /\ DegradedSecondary) =>
           (pos' = pos /\ pc' = "fields" /\ idx' = 1 /\ secondaryBitmap' = Null)]_vars

\* a primary field was decoded at 20 although the secondary bitmap is missing
C14_Witness ==
    /\ Done
    /\ DegradedSecondary
    /\ Len(fields) >= 1
    /\ fields[1].startPos = 20
    /\ SecondaryShortErrors # << >>

(***************************************************************************)
(* C15: the loop iteration of an active field number without a Field       *)
(* Specification entry logs exactly one error naming that field, leaves    *)
(* the cursor, the fields and the segments as they are and goes on with    *)
(* the next active field number; a result whose only errors are of this    *)
(* kind has success = true.                                                *)
(***************************************************************************)
MissingSpecTurn == InLoop /\ ~HasSpec(fieldNum)

MissingSpecStep ==
    MissingSpecTurn =>
        /\ Len(errors') = Len(errors) + 1
        /\ SubSeq(errors', 1, Len(errors)) = errors
        /\ errors'[Len(errors')].kind = "NoSpec"
        /\ errors'[Len(errors')].field = fieldNum
        /\ pos' = pos
        /\ fields' = fields
        /\ hexSegments' = hexSegments
        /\ pc' = "fields"
        /\ idx' = idx + 1
        /\ allActiveFields' = allActiveFields

NoSpecErrors == SelectSeq(errors, LAMBDA e : e.kind = "NoSpec")

MissingSpecHarmless ==
    /\ (Done /\ primaryBitmap # Null /\ ErrorKinds = { "NoSpec" }) => success = TRUE
    /\ \A i, j \in 1..Len(NoSpecErrors) :
          i # j => NoSpecErrors[i].field # NoSpecErrors[j].field
    /\ \A i \in 1..Len(NoSpecErrors), k \in 1..Len(fields) :
          fields[k].de # NoSpecErrors[i].field

C15_MissingSpecSkipped == [](MissingSpecHarmless) /\ [][MissingSpecStep]_vars

\* field 63 was skipped for want of a specification, a later field was
\* decoded, and nothing else went wrong
C15_Witness ==
    /\ Done
    /\ ErrorKinds = { "NoSpec" }
    /\ Len(errors) = 1
    /\ errors[1].field = 63
    /\ Len(fields) = 1
    /\ fields[1].de > 63
    /\ success = TRUE

(***************************************************************************)
(* C19: decodeMTI returns for every fragment.  For a fragment of at least  *)
(* 8 characters whose first 8 are four bytes of ASCII decimal digits, raw  *)
(* is the 4 digits; for any other fragment of at least 4 characters raw is *)
(* its first 4 characters.  raw then has 4 characters, version,            *)
(* messageClass, function and origin carry raw's characters 1..4 with the  *)
(* table label or "Unknown", and description is the table entry or         *)
(* "Message Type " followed by raw.                                        *)
(***************************************************************************)
Returned == pc = "returned"

\* bytes 0x30..0x39 at the first four byte positions
FourAsciiDigits(frag) ==
    /\ Len(frag) >= 8
    /\ \A k \in 0..3 : frag[2 * k + 1] = "3" /\ frag[2 * k + 2] \in DecDigits

ExpectedRaw(frag) ==
    IF FourAsciiDigits(frag) THEN << frag[2], frag[4], frag[6], frag[8] >>
    ELSE SubSeq(frag, 1, 4)

ExpectedLabel(table, c) == IF c \in DOMAIN table THEN table[c] ELSE "Unknown"

C19_DecodeMTI ==
    /\ Returned => mti # Null
    /\ (Returned /\ Len(inputHex) >= 4) =>
          LET m == mti[1]
          IN  /\ m.raw = ExpectedRaw(inputHex)
              /\ Len(m.raw) = 4
              /\ m.version = [code |-> m.raw[1], label |-> ExpectedLabel(MTI_VERSION, m.raw[1])]
              /\ m.messageClass = [code |-> m.raw[2], label |-> ExpectedLabel(MTI_CLASS, m.raw[2])]
              /\ m.function = [code |-> m.raw[3], label |-> ExpectedLabel(MTI_FUNCTION, m.raw[3])]
              /\ m.origin = [code |-> m.raw[4], label |-> ExpectedLabel(MTI_ORIGIN, m.raw[4])]
              /\ m.description =
                    IF m.raw \in DOMAIN MTI_DESCRIPTIONS
                    THEN [text |-> MTI_DESCRIPTIONS[m.raw], code |-> << >>]
                    ELSE [text |-> "Message Type ", code |-> m.raw]

\* an ASCII-encoded MTI with a table description was selected
C19_Witness ==
    /\ Returned
    /\ FourAsciiDigits(inputHex)
    /\ mti[1].raw = << "0", "1", "0", "0" >>
    /\ mti[1].description.text = "Authorization Request"

\* eight characters that are not ASCII digits fall back to the first four
C19_WitnessFallback ==
    /\ Returned
    /\ Len(inputHex) >= 8
    /\ ~FourAsciiDigits(inputHex)
    /\ mti[1].raw = SubSeq(inputHex, 1, 4)
    /\ mti[1].messageClass.label = "Unknown"

(***************************************************************************)
(* C18: every invocation reaches its return, and until then a next step    *)
(* always exists (nothing is thrown); the stages are passed in the order   *)
(* precondition, MTI, primary bitmap, secondary bitmap, field loop,        *)
(* trailing check, return, never backwards; inside the field loop every    *)
(* step moves on to the next active field number, so the loop makes at     *)
(* most one iteration per active field number.                             *)
(***************************************************************************)
Rank(p) ==
    CASE p = "start" -> 0
      [] p = "mti" -> 1
      [] p = "primary" -> 2
      [] p = "secondary" -> 3
      [] p = "fields" -> 4
      [] p = "trailing" -> 5
      [] p = "done" -> 6

StrictlyForward ==
    \/ Rank(pc') > Rank(pc)
    \/ /\ pc = "fields" /\ pc' = "fields"
       /\ idx <= Len(allActiveFields)
       /\ idx' = idx + 1
       /\ allActiveFields' = allActiveFields

ReturnsResult ==
    /\ pc = "fields" => idx >= 1 /\ idx <= Len(allActiveFields) + 1
    /\ Done => /\ success \in BOOLEAN
               /\ Len(fields) <= Len(allActiveFields)

C18_TerminatesMovingForward ==
    /\ <>Done
    /\ []ReturnsResult
    /\ [][StrictlyForward]_vars

\* a loop of more than one iteration came to its return
C18_Witness ==
    /\ Done
    /\ Len(allActiveFields) >= 2
    /\ idx = Len(allActiveFields) + 1
    /\ Len(fields) = 1
    /\ Len(errors) = 1

(***************************************************************************)
(* C16: when a message M parsed with an empty error list, the parse of M   *)
(* followed by a non-empty hex string T has the same mti, bitmaps and      *)
(* fields, exactly one error, the unparsed-data error reporting the length *)
(* of T, and success = true.                                               *)
(***************************************************************************)
SecondDone == Done /\ prev # Null

C16_TrailingDataHarmless ==
    (SecondDone /\ prev[1].rel = "tail" /\ prev[1].result.errors = << >>) =>
        /\ mti = prev[1].result.mti
        /\ primaryBitmap = prev[1].result.primaryBitmap
        /\ secondaryBitmap = prev[1].result.secondaryBitmap
        /\ fields = prev[1].result.fields
        /\ Len(errors) = 1
        /\ errors[1].kind = "Unparsed"
        /\ errors[1].count = Len(prev[1].arg)
        /\ success = TRUE

\* a message with two decoded fields, parsed again with two stray characters
C16_Witness ==
    /\ SecondDone
    /\ prev[1].rel = "tail"
    /\ prev[1].result.errors = << >>
    /\ Len(prev[1].result.fields) = 2
    /\ Len(prev[1].arg) = 2
    /\ Len(fields) = 2

(***************************************************************************)
(* C17: putting a space, a newline or a carriage return anywhere into the  *)
(* input, or changing the case of its letters, gives a result equal to the *)
(* result for the input itself.                                            *)
(***************************************************************************)
C17_NormalizationIndependence ==
    (SecondDone /\ prev[1].rel \in { "spaced", "recased" }) => Result = prev[1].result

\* a message with a decoded field gave the same result with a carriage
\* return inside its MTI
C17_Witness ==
    /\ SecondDone
    /\ prev[1].rel = "spaced"
    /\ prev[1].arg = << "\r" >>
    /\ Len(fields) >= 1
    /\ inputHex[3] = "\r"
    /\ Result = prev[1].result

\* a message with hex letters gave the same result in lower case
C17_WitnessRecased ==
    /\ SecondDone
    /\ prev[1].rel = "recased"
    /\ inputHex # prev[1].input
    /\ Len(fields) >= 1
    /\ Result = prev[1].result

RoundUpEven(n) == n + (n % 2)

AllDecimal(s) == \A i \in 1..Len(s) : s[i] \in DecDigits

RECURSIVE DecimalValue(_)
DecimalValue(s) ==
    IF s = << >> THEN 0
    ELSE 10 * DecimalValue(SubSeq(s, 1, Len(s) - 1)) + HexVal(s[Len(s)])

\* the length prefix of a variable-length field, empty for FIXED
PrefixOf(fl) == SubSeq(hex, fl.startPos + 1, fl.startPos + PrefixWidth(fl.format))

ExpectedConsumed(fl) ==
    LET numeric == fl.type \in { "n", "x+n" }
        maxLength == FIELD_SPECS[fl.de].maxLength
        declared == DecimalValue(PrefixOf(fl))
    IN  IF fl.format = "FIXED"
        THEN (IF numeric THEN RoundUpEven(maxLength) ELSE maxLength * 2)
        ELSE PrefixWidth(fl.format)
               + (IF numeric THEN RoundUpEven(declared) ELSE declared * 2)

EnoughInput(fl) ==
    /\ fl.startPos + PrefixWidth(fl.format) <= Len(hex)
    /\ AllDecimal(PrefixOf(fl))
    /\ fl.startPos + ExpectedConsumed(fl) <= Len(hex)

ConsumedAsSpecified ==
    \A i \in 1..Len(fields) :
        EnoughInput(fields[i]) =>
            fields[i].endPos - fields[i].startPos = ExpectedConsumed(fields[i])

C21_ConsumedLength ==
    /\ []ConsumedAsSpecified
    /\ [][(fields' # fields /\ fields' # << >>) =>
             pos' = fields'[Len(fields')].endPos]_vars

\* DE2 with the odd declared length 3 took 2 + 4 characters
C21_Witness ==
    /\ Done
    /\ errors = << >>
    /\ \E i \in 1..Len(fields) :
          /\ fields[i].de = 2
          /\ PrefixOf(fields[i]) = << "0", "3" >>
          /\ fields[i].endPos - fields[i].startPos = 6

(***************************************************************************)
(* C22: the step that follows the field loop appends, exactly when the     *)
(* cursor is before the end of the normalized input, one error giving the  *)
(* number of leftover characters and one segment of category error over    *)
(* [cursor, end of input); they are the last error and the last segment of *)
(* the result, and no result holds more than one of either.                *)
(***************************************************************************)
UnparsedErrors == SelectSeq(errors, LAMBDA e : e.kind = "Unparsed")
ErrorSegments == SelectSeq(hexSegments, LAMBDA g : g.category = "error")

TrailingCheckStep ==
    pc = "trailing" =>
        IF pos < Len(hex)
        THEN /\ Len(errors') = Len(errors) + 1
             /\ SubSeq(errors', 1, Len(errors)) = errors
             /\ errors'[Len(errors')].kind = "Unparsed"
             /\ errors'[Len(errors')].count = Len(hex) - pos
             /\ Len(hexSegments') = Len(hexSegments) + 1
             /\ SubSeq(hexSegments', 1, Len(hexSegments)) = hexSegments
             /\ hexSegments'[Len(hexSegments')].category = "error"
             /\ hexSegments'[Len(hexSegments')].startPos = pos
             /\ hexSegments'[Len(hexSegments')].endPos = Len(hex)
             /\ hexSegments'[Len(hexSegments')].hex = SubSeq(hex, pos + 1, Len(hex))
             /\ pc' = "done"
        ELSE /\ errors' = errors
             /\ hexSegments' = hexSegments
             /\ pc' = "done"

AtMostOneTrailing ==
    /\ Len(UnparsedErrors) <= 1
    /\ Len(ErrorSegments) <= 1
    /\ Len(UnparsedErrors) = Len(ErrorSegments)
    /\ UnparsedErrors # << >> =>
          /\ Done
          /\ errors[Len(errors)].kind = "Unparsed"
          /\ hexSegments[Len(hexSegments)].category = "error"
    /\ (Done /\ primaryBitmap # Null) => (UnparsedErrors # << >> <=> pos < Len(hex))

C22_TrailingDataCheck == []AtMostOneTrailing /\ [][TrailingCheckStep]_vars

\* leftover characters were reported after a decoded field and another error
C22_Witness ==
    /\ Done
    /\ Len(fields) >= 1
    /\ Len(errors) = 2
    /\ errors[2].kind = "Unparsed"
    /\ errors[2].count = 2
    /\ hexSegments[Len(hexSegments)].category = "error"

\* the cursor reached the end of the input: nothing was appended
C22_WitnessNothingLeft ==
    /\ Done
    /\ Len(fields) >= 1
    /\ pos = Len(hex)
    /\ UnparsedErrors = << >>

(***************************************************************************)
(* C23: the loop iteration that rejects an LLVAR/LLLVAR length prefix      *)
(* moves the cursor by the prefix width (2 or 4) and by nothing else,      *)
(* emits nothing, does not stop the loop, and leaves the next active field *)
(* number to be decoded at that cursor position.                           *)
(***************************************************************************)
PrefixRejectedStep ==
    /\ InLoop
    /\ Len(errors') = Len(errors) + 1
    /\ errors'[Len(errors')].kind \in InvalidPrefixKinds

RecoveryAfterRejection ==
    PrefixRejectedStep =>
        /\ pos' = pos + PrefixWidth(FIELD_SPECS[fieldNum].format)
        /\ errors'[Len(errors')].field = fieldNum
        /\ errors'[Len(errors')].position = pos
        /\ fields' = fields
        /\ hexSegments' = hexSegments
        /\ pc' = "fields"
        /\ idx' = idx + 1
        /\ allActiveFields' = allActiveFields

\* every ParsedField that follows a rejected prefix starts at or after the
\* end of that prefix, the next one decoded exactly there
ResumesAfterPrefix ==
    \A i \in 1..Len(errors) :
        errors[i].kind \in InvalidPrefixKinds =>
            LET w == IF errors[i].kind = "InvalidLLVAR" THEN 2 ELSE 4
            IN  \A j \in 1..Len(fields) :
                    fields[j].de > errors[i].field =>
                        fields[j].startPos >= errors[i].position + w

C23_InvalidPrefixRecovery == []ResumesAfterPrefix /\ [][RecoveryAfterRejection]_vars

\* an LLLVAR prefix was rejected at 20 and the next field was decoded from 24
C23_Witness ==
    /\ Done
    /\ Len(errors) >= 1
    /\ errors[1].kind = "InvalidLLLVAR"
    /\ errors[1].position = 20
    /\ Len(fields) = 1
    /\ fields[1].startPos = 24

(***************************************************************************)
(* C24: when the loop reaches an active field that has a specification     *)
(* with the cursor at the end of the input, or with fewer characters left  *)
(* than its LLVAR/LLLVAR prefix takes, it logs exactly one error for that  *)
(* field, emits nothing, leaves the cursor where it is and ends the loop:  *)
(* no later active field number is examined, and success is false.         *)
(***************************************************************************)
Exhausted ==
    /\ InLoop
    /\ HasSpec(fieldNum)
    /\ \/ pos >= Len(hex)
       \/ Len(hex) - pos < PrefixWidth(FIELD_SPECS[fieldNum].format)

StopKinds == { "RanOut" } \cup PrefixShortKinds

ExhaustionStep ==
    Exhausted =>
        /\ Len(errors') = Len(errors) + 1
        /\ SubSeq(errors', 1, Len(errors)) = errors
        /\ errors'[Len(errors')].kind =
              (IF pos >= Len(hex) THEN "RanOut"
               ELSE IF FIELD_SPECS[fieldNum].format = "LLVAR" THEN "LLVARPrefixShort"
               ELSE "LLLVARPrefixShort")
        /\ errors'[Len(errors')].field = fieldNum
        /\ fields' = fields
        /\ hexSegments' = hexSegments
        /\ pos' = pos
        /\ pc' = "trailing"

StopErrors == SelectSeq(errors, LAMBDA e : e.kind \in StopKinds)

ExhaustionEndsLoop ==
    StopErrors # << >> =>
        /\ Len(StopErrors) = 1
        /\ pc \in { "trailing", "done" }
        /\ \A j \in 1..Len(fields) : fields[j].de < StopErrors[1].field
        /\ \A i \in 1..Len(errors) :
              errors[i].kind # "Unparsed" => errors[i].field <= StopErrors[1].field
        /\ Done => success = FALSE

C24_ExhaustionStopsLoop == []ExhaustionEndsLoop /\ [][ExhaustionStep]_vars

\* the input ended in front of a specified field while a later active field
\* number was never looked at
C24_Witness ==
    /\ Done
    /\ Len(StopErrors) = 1
    /\ StopErrors[1].kind = "RanOut"
    /\ \E k \in 1..Len(allActiveFields) : allActiveFields[k] > StopErrors[1].field
    /\ idx < Len(allActiveFields)
    /\ success = FALSE

(***************************************************************************)
(* C26: the decodedValue of every LLVAR/LLLVAR ParsedField is computed     *)
(* from the field's own data portion only, the normalized input between    *)
(* startPos + prefix width and endPos (raw hex for numeric, ASCII-decoded  *)
(* otherwise), also when the end of the input cut the data short.          *)
(***************************************************************************)
DataPortion(fl) == SubSeq(hex, fl.startPos + PrefixWidth(fl.format) + 1, fl.endPos)

C26_ValueFromOwnData ==
    \A i \in 1..Len(fields) :
        fields[i].format \in { "LLVAR", "LLLVAR" } =>
            fields[i].decodedValue =
                (IF fields[i].type = "n" THEN DataPortion(fields[i])
                 ELSE hexToAscii(DataPortion(fields[i])))

\* the same for the fields whose data was complete
C26_ValueFromOwnDataWhenComplete ==
    \A i \in 1..Len(fields) :
        (/\ fields[i].format \in { "LLVAR", "LLLVAR" }
         /\ \A k \in 1..Len(errors) :
               errors[k].field = fields[i].de => errors[k].kind \notin ShortfallKinds) =>
            fields[i].decodedValue =
                (IF fields[i].type = "n" THEN DataPortion(fields[i])
                 ELSE hexToAscii(DataPortion(fields[i])))

(***************************************************************************)
(* C27: in every result each segment's hex is the normalized input between *)
(* its startPos and endPos, the segments are in increasing position order  *)
(* without overlap, and every ParsedField has exactly one segment with its *)
(* field number, and that segment has the field's startPos, endPos and     *)
(* rawHex.                                                                 *)
(***************************************************************************)
SegmentsOf(d) == SelectSeq(hexSegments, LAMBDA g : g.de = d)

C27_PositionsConsistent ==
    /\ \A i \in 1..Len(hexSegments) :
          /\ hexSegments[i].startPos >= 0
          /\ hexSegments[i].endPos <= Len(hex)
          /\ hexSegments[i].hex =
                SubSeq(hex, hexSegments[i].startPos + 1, hexSegments[i].endPos)
    /\ \A i \in 1..(Len(hexSegments) - 1) :
          /\ hexSegments[i].endPos <= hexSegments[i + 1].startPos
          /\ hexSegments[i].startPos < hexSegments[i + 1].startPos
    /\ \A j \in 1..Len(fields) :
          /\ Len(SegmentsOf(fields[j].de)) = 1
          /\ SegmentsOf(fields[j].de)[1].startPos = fields[j].startPos
          /\ SegmentsOf(fields[j].de)[1].endPos = fields[j].endPos
          /\ SegmentsOf(fields[j].de)[1].hex = fields[j].rawHex

\* MTI, bitmap, a whole field and a field cut short by the end of the input
C27_Witness ==
    /\ Done
    /\ Len(hexSegments) = 4
    /\ Len(fields) = 2
    /\ hexSegments[4].endPos = Len(hex)
    /\ ErrorKinds \cap ShortfallKinds # {}

(***************************************************************************)
(* C28: throughout an invocation 0 <= pos <= length of the normalized      *)
(* input and pos never decreases; every ParsedField and every segment has  *)
(* 0 <= startPos <= endPos <= input length.                                *)
(***************************************************************************)
CursorInRange ==
    /\ 0 <= pos /\ pos <= Len(hex)
    /\ \A j \in 1..Len(fields) :
          /\ 0 <= fields[j].startPos
          /\ fields[j].startPos <= fields[j].endPos
          /\ fields[j].endPos <= Len(hex)
    /\ \A i \in 1..Len(hexSegments) :
          /\ 0 <= hexSegments[i].startPos
          /\ hexSegments[i].startPos <= hexSegments[i].endPos
          /\ hexSegments[i].endPos <= Len(hex)

C28_CursorInvariant == []CursorInRange /\ [][pos' >= pos]_vars

\* the cursor was moved by the MTI, the bitmap, a rejected prefix and a
\* field cut short, and stands at the end of the input
C28_Witness ==
    /\ Done
    /\ pos = Len(hex)
    /\ pos > 22
    /\ ErrorKinds \cap InvalidPrefixKinds # {}
    /\ ErrorKinds \cap ShortfallKinds # {}
    /\ Len(fields) = 1

(***************************************************************************)
(* C29: for every input that is valid hex of length >= 4, digits or not,   *)
(* the MTI takes exactly the first 4 characters of the normalized input:   *)
(* mti.raw is those characters, the MTI segment is [0,4) and the primary   *)
(* bitmap is read from position 4.  The eight-character ASCII form that    *)
(* decodeMTI recognises is never applied.                                  *)
(***************************************************************************)
ValidHexInput == Len(NonBlank) >= 4 /\ ~HasNonHexChar

MTIFromFirstFour ==
    /\ (Done /\ ValidHexInput) => mti # Null
    /\ mti # Null =>
          /\ mti[1].raw = First4
          /\ mti[1].raw = SubSeq(hex, 1, 4)
          /\ Len(hexSegments) >= 1
          /\ hexSegments[1] = HexSegment(First4, "mti", 0, 4, -1)
          /\ \A i \in 2..Len(hexSegments) : hexSegments[i].category # "mti"
    /\ primaryBitmap # Null =>
          /\ primaryBitmap[1].startPos = 4
          /\ primaryBitmap[1].endPos = 20
          /\ primaryBitmap[1].rawHex = SubSeq(hex, 5, 20)

C29_MTIFirstFourCharacters ==
    /\ []MTIFromFirstFour
    /\ [][pc = "mti" => (pos = 0 /\ pos' = 4 /\ pc' = "primary")]_vars

\* the input opens with the ASCII encoding of 0800; the MTI is 3038 and the
\* bitmap starts with the rest of the encoding
C29_Witness ==
    /\ Done
    /\ FourAsciiDigits(hex)
    /\ mti # Null
    /\ mti[1].raw = Str4("3", "0", "3", "8")
    /\ primaryBitmap # Null
    /\ SubSeq(primaryBitmap[1].rawHex, 1, 4) = Str4("3", "0", "3", "0")

\* an MTI that is not made of decimal digits
C29_WitnessLetters ==
    /\ Done
    /\ mti # Null
    /\ \E i \in 1..4 : mti[1].raw[i] \notin DecDigits

(***************************************************************************)
(* The components that use useBinData, mounting and unmounting in any      *)
(* order while the fetch of the BIN list settles.                          *)
(***************************************************************************)
InitBin ==
    /\ InitParser
    /\ inputHex = << >>
    /\ gen = [kind |-> "raw", F |-> {}, pay |-> << >>, bit1 |-> FALSE,
              written |-> 0, cut |-> 0, trail |-> << >>, valid |-> FALSE]

NextBin ==
    \/ \E i \in HookIds : Render(i)
    \/ \E i \in HookIds : RunEffect(i)
    \/ \E i \in HookIds : Unmount(i)
    \/ \E f \in fetches, rows \in BinFiles : FetchSucceeds(f, rows)
    \/ \E f \in fetches : FetchFails(f)

SpecBin == InitBin /\ [][NextBin]_vars

(***************************************************************************)
(* C25: the BIN database is loaded once.  In every interleaving of mounts, *)
(* unmounts and fetch completions at most one fetch is in flight; once a   *)
(* fetch has succeeded the cache is never replaced or cleared and no       *)
(* further fetch is started.                                               *)
(***************************************************************************)
OneFetchInFlight ==
    /\ Cardinality(fetches) <= 1
    /\ binDataLoading <=> fetches # {}
    /\ binDataCache # Null => fetches = {}

CacheKept == binDataCache # Null => (binDataCache' = binDataCache /\ fetches' = {})

C25_LoadedOnce == []OneFetchInFlight /\ [][CacheKept]_vars

\* the load succeeded while a second component waited, and a component
\* mounted afterwards took the cache without a fetch
C25_Witness ==
    /\ binDataCache # Null
    /\ binDataCache[1] # << >>
    /\ fetches = {}
    /\ \E i, j, k \in HookIds :
          /\ hooks[i].phase = "mounted" /\ hooks[i].invoked = 1
          /\ hooks[j].phase = "mounted" /\ hooks[j].invoked = 0
          /\ hooks[j].cleanup = FALSE /\ hooks[j].mounts = 2
          /\ hooks[j].binMap = binDataCache
          /\ hooks[k].phase = "unmounted" /\ hooks[k].mounts = 1
          /\ i # j /\ j # k /\ i # k

(***************************************************************************)
(* C30: when a fetch completes successfully the cache is set, the listener *)
(* of every component that registered one during a load and is still       *)
(* mounted is invoked once, the listener list is then empty and the        *)
(* loading flag false; a component that unmounted while waiting has taken  *)
(* its listener out and is not invoked.  When a fetch fails the loading    *)
(* flag is false again with the cache still empty, and the effect of a     *)
(* later mount starts a new fetch.                                         *)
(***************************************************************************)
Waiting(i) == hooks[i].phase = "mounted" /\ hooks[i].cleanup /\ hooks[i].invoked = 0

ListenersOfTheWaiting ==
    /\ \A k \in 1..Len(binDataListeners) : Alive(binDataListeners[k])
    /\ \A i \in HookIds : ListenersOf(i) = IF Waiting(i) THEN 1 ELSE 0
    /\ \A i \in HookIds : hooks[i].invoked <= 1

FetchSuccessStep == fetches' # fetches /\ binDataCache' # Null

FetchFailureStep == fetches' # fetches /\ fetches' \subseteq fetches /\ binDataCache' = Null

EffectStep(i) == hooks[i].phase = "rendered" /\ hooks'[i].phase = "mounted"

NotifiedOnSuccess ==
    FetchSuccessStep =>
        /\ binDataCache = Null
        /\ \A i \in HookIds :
              /\ hooks'[i].invoked = hooks[i].invoked + (IF Waiting(i) THEN 1 ELSE 0)
              /\ Waiting(i) => hooks'[i].binMap = binDataCache'
              /\ hooks[i].phase = "unmounted" => hooks'[i] = hooks[i]
        /\ binDataListeners' = << >>
        /\ binDataLoading' = FALSE

RetryAfterFailure ==
    /\ FetchFailureStep =>
          /\ binDataLoading' = FALSE
          /\ binDataCache' = Null
          /\ fetches' = {}
    /\ \A i \in HookIds :
          (EffectStep(i) /\ binDataCache = Null /\ ~binDataLoading) =>
              /\ fetches' = { [hook |-> i, mount |-> hooks[i].mounts] }
              /\ binDataLoading' = TRUE

C30_LoadNotification ==
    /\ []ListenersOfTheWaiting
    /\ [][NotifiedOnSuccess]_vars
    /\ [][RetryAfterFailure]_vars

\* the load succeeded: one waiting component was notified, another had
\* unmounted while waiting and was not
C30_Witness ==
    /\ binDataCache # Null
    /\ binDataListeners = << >>
    /\ ~binDataLoading
    /\ \E i, j, k \in HookIds :
          /\ hooks[j].branch = "fetch"
          /\ hooks[i].branch = "listen" /\ hooks[i].phase = "mounted"
          /\ hooks[i].invoked = 1 /\ hooks[i].binMap = binDataCache
          /\ hooks[k].branch = "listen" /\ hooks[k].phase = "unmounted"
          /\ hooks[k].invoked = 0 /\ hooks[k].binMap = Null

\* a first fetch failed and the second mounting of the same component
\* started another one, while a listener of the first load still waits
C30_WitnessRetry ==
    /\ binDataCache = Null
    /\ \E i, j \in HookIds :
          /\ fetches = { [hook |-> j, mount |-> 2] }
          /\ hooks[j].branch = "fetch"
          /\ hooks[i].branch = "listen" /\ hooks[i].mounts = 1 /\ Waiting(i)
          /\ \A k \in HookIds \ { i, j } : hooks[k].mounts = 0

====
